---- MODULE Spec2Model ----
(***************************************************************************)
(* NYC precinct field-reference app: the dataset version manager and the   *)
(* startup / refresh seeding sequences (services/dataLoader.ts in its two  *)
(* builds, db/repositories/syncRepository.ts), and the zone resolver       *)
(* (db/repositories/precinctRepository.ts, utils/geo.ts).                  *)
(*                                                                         *)
(* The specifications share the variables:                                 *)
(*   Spec            the application life cycle: onboarding load, upgrade, *)
(*                   refresh, provider mount, map presses, restarts;       *)
(*   SpecSync        direct calls of the sync repository and of the        *)
(*                   upgrade test;                                         *)
(*   SpecGeo         the zone resolver over a table of zones;              *)
(*   SpecMalformed   the resolver over rows out of shape;                  *)
(*   SpecSearch      the search screen;                                    *)
(*   SpecPolygon     isPointInPolygon;                                     *)
(*   SpecCalendar    computeMonthSchedule;                                 *)
(*   SpecSchedules   table rdo_schedules;                                  *)
(*   SpecSectorRings the rings seedSectorData derives;                     *)
(*   SpecDb          the database handle;                                  *)
(*   SpecRecent      table recent_searches.                                *)
(*                                                                         *)
(* Numbers are exact (integers); the floating point of the source is not   *)
(* modelled.  Strings that are compared with < are sequences of UTF-16     *)
(* code units.                                                             *)
(***************************************************************************)
EXTENDS Integers, Sequences, FiniteSets, TLC

\* ------------------------------------------------------------------ bounds

\* Number of precinct rows the seed holds (23 in seedPrecinctData).
NumPrecincts == 2
\* Number of process restarts (next startups) explored.
MaxRestarts == 1
\* Number of presses of the onboarding Retry button explored.
MaxRetries == 1
\* Number of law entries the seed holds (33 in seedLawLibrary).
NumLawEntries == 1
\* Largest value of Date.now() explored by SpecSync.
MaxClock == 2

\* ----------------------------------------------------------------- strings

\* UTF-16 code units of the characters version strings are made of.
CodeUnit == [c \in {".", "0", "1", "2", "3", "4", "5", "6", "7", "8", "9"} |->
               CASE c = "." -> 46
                 [] c = "0" -> 48 [] c = "1" -> 49 [] c = "2" -> 50
                 [] c = "3" -> 51 [] c = "4" -> 52 [] c = "5" -> 53
                 [] c = "6" -> 54 [] c = "7" -> 55 [] c = "8" -> 56
                 [] c = "9" -> 57]

\* A string literal, given character by character, as its code units.
Str(chars) == [i \in 1..Len(chars) |-> CodeUnit[chars[i]]]

V_1_0_0 == Str(<<"1", ".", "0", ".", "0">>)
V_2_0_0 == Str(<<"2", ".", "0", ".", "0">>)
V_9_0_0 == Str(<<"9", ".", "0", ".", "0">>)
V_10_0_0 == Str(<<"1", "0", ".", "0", ".", "0">>)
V_11_0_0 == Str(<<"1", "1", ".", "0", ".", "0">>)

RECURSIVE JsStringLessNumeric(_, _)
\* What a comparison by numeric leading segment would answer (not the code).
JsStringLessNumeric(a, b) ==
  LET RECURSIVE Major(_, _)
      Major(s, acc) == IF s = <<>> \/ Head(s) = 46 THEN acc
                       ELSE Major(Tail(s), acc * 10 + (Head(s) - 48))
  IN Major(a, 0) < Major(b, 0)

RECURSIVE JsStringLess(_, _)
\* JavaScript's a < b on two strings: code unit by code unit, a proper
\* prefix being the smaller.
JsStringLess(a, b) ==
  IF b = <<>> THEN FALSE
  ELSE IF a = <<>> THEN TRUE
  ELSE IF Head(a) # Head(b) THEN Head(a) < Head(b)
  ELSE JsStringLess(Tail(a), Tail(b))

\* ------------------------------------------------------------------- state

VARIABLES
  build,          \* which build of services/dataLoader.ts is installed
  data_versions,  \* table data_versions: a set of rows
  precincts,      \* table precincts: precinctNum -> "absent" | "bundled" | "google"
  sectors,        \* table sectors: the set of <<precinctNum, "A" | "B">> present
  lawCategories,  \* number of rows of law_categories
  lawEntries,     \* number of rows of law_entries
  now,            \* Date.now()
  isDataLoaded,   \* AppContext.isDataLoaded
  pc,             \* position of each asynchronous sequence
  ctx,            \* which sequence a task runs: "initial" | "upgrade" | "refresh"
  stage,          \* the dataset a task is reseeding: "precincts" | "sectors"
  todo,           \* per task: the rows its seeding loop still has to insert
  loadResult,     \* how the promise of performInitialDataLoad settled
  providerPc,     \* position of AppProvider's mount effect
  restarts,       \* process restarts so far
  retries,        \* presses of Retry so far
  upgradeCheck,   \* the last upgrade test: what it read and what it decided
  upFail,         \* the upgrade attempt that threw, if one did
  wrote,          \* dataset keys whose version the running load has written
  refreshWrote,   \* whether a refresh has written a version since the load began
  dirty,          \* precincts is what a failed or interrupted reseed left
  resolverRead,   \* the last resolver call: what state it read the tables in
  lastSet,        \* SpecSync: per key, the arguments of the last setDataVersion
  loadComplete,   \* SpecSync: the last answer of isInitialLoadComplete
  zones,          \* SpecGeo: the zone rows of table precincts
  query,          \* SpecGeo: the last resolver call and its result
  polyTests,      \* SpecGeo: calls of isPointInPolygon during the last call
  sectorRows,     \* SpecGeo: table sectors, the rows in rowid order
  press,          \* SpecGeo: the last map press and what it resolved to
  nearest,        \* SpecGeo: the last findNearestPrecinct call and its result
  altResult,      \* SpecGeo: the last call's result had the scan returned
                  \* the rows in another order
  selectedPrecinct,  \* AppContext.selectedPrecinct: a precinctNum, 0 for null
  selectedSector,    \* AppContext.selectedSector
  searchedAddress,   \* AppContext.searchedAddress: <<address>>, <<>> for null
  searchedLocation,  \* AppContext.searchedLocation: <<lat, lng>>, <<>> for null
  recentRows,        \* table recent_searches, the newest row first
  recentSearches,    \* SearchScreen.recentSearches
  addressSearch,     \* SpecSearch: the last address search and how it ended
  polygonCall,       \* SpecPolygon: the last isPointInPolygon call and its result
  monthCall,         \* SpecCalendar: a computeMonthSchedule call and its result
  rdoSchedules,      \* SpecSchedules: table rdo_schedules, squadId -> row
  sectorCall,        \* SpecSectorRings: a turn of seedSectorData's loop
  dbPromise,         \* database.ts dbPromise: 0 for null, else the promise
  dbInits,           \* SpecDb: per run of initDatabase, its promise / handle
  dbTask,            \* SpecDb: position of each sequence using the database
  closedUse,         \* SpecDb: the operations that ran on a closed handle
  recent_searches,   \* SpecRecent: table recent_searches, the timestamps of
                     \* its rows in searchId order
  searchCall         \* SpecRecent: the last call of the search repository

lifeVars == <<build, precincts, sectors, lawCategories, lawEntries, isDataLoaded,
              pc, ctx, stage, todo, loadResult, providerPc, restarts, retries,
              upFail, wrote, refreshWrote, dirty, resolverRead>>
syncVars == <<lastSet, loadComplete>>
uiVars == <<selectedPrecinct, selectedSector, searchedAddress, searchedLocation,
            recentRows, recentSearches>>
dbVars == <<dbPromise, dbInits, dbTask, closedUse>>
recentVars == <<recent_searches, searchCall>>
extraVars == <<rdoSchedules, sectorCall, dbVars, recentVars>>
geoVars == <<zones, query, polyTests, altResult, nearest, sectorRows, press,
             uiVars, addressSearch, polygonCall, monthCall, extraVars>>
vars == <<build, data_versions, precincts, sectors, lawCategories, lawEntries, now,
          isDataLoaded, pc, ctx, stage, todo, loadResult, providerPc, restarts,
          retries, upgradeCheck, upFail, wrote, refreshWrote, dirty, resolverRead,
          lastSet, loadComplete, zones, query, polyTests, altResult,
          nearest, sectorRows, press, selectedPrecinct, selectedSector,
          searchedAddress, searchedLocation, recentRows, recentSearches,
          addressSearch, polygonCall, monthCall, rdoSchedules, sectorCall,
          dbPromise, dbInits, dbTask, closedUse, recent_searches, searchCall>>

\* ------------------------------------------------- sync / version repository

DatasetKey == {"precincts", "sectors", "laws"}

\* The rows of `table` with the given key (at most one: datasetKey is the
\* primary key).
RowsOf(table, key) == {r \in table : r.datasetKey = key}

\* getDataVersion: whether a row exists, and its version.
HasDataVersion(table, key) == RowsOf(table, key) # {}
VersionOf(table, key) == (CHOOSE r \in RowsOf(table, key) : TRUE).version

\* INSERT OR IGNORE instead of the upsert (not the code).
SetDataVersionIgnore(table, key, version, at) ==
  IF RowsOf(table, key) # {} THEN table
  ELSE table \cup {[datasetKey |-> key, version |-> version, lastSyncedAt |-> at]}

\* setDataVersion: INSERT ... ON CONFLICT(datasetKey) DO UPDATE SET version,
\* lastSyncedAt.
SetDataVersion(table, key, version, at) ==
  (table \ RowsOf(table, key))
    \cup {[datasetKey |-> key, version |-> version, lastSyncedAt |-> at]}

\* COUNT(*) >= 2 instead of >= 3 (not the code).
IsInitialLoadCompleteTwo(table) ==
  Cardinality({r \in table : r.datasetKey \in {"precincts", "sectors", "laws"}}) >= 2

\* isInitialLoadComplete: COUNT(*) of the rows whose key is one of the three,
\* at least 3.
IsInitialLoadComplete(table) ==
  Cardinality({r \in table : r.datasetKey \in {"precincts", "sectors", "laws"}}) >= 3

\* The upgrade test without the test for a missing row (not the code).
NeedsUpgradeNoAbsent(table, key, target) ==
  HasDataVersion(table, key) /\ JsStringLess(VersionOf(table, key), target)

\* !ver || ver.version < TARGET, ver being getDataVersion(key).
NeedsUpgrade(table, key, target) ==
  \/ ~HasDataVersion(table, key)
  \/ JsStringLess(VersionOf(table, key), target)

\* ------------------------------------------------------- values not yet set

NoCheck == [done |-> FALSE, key |-> "laws", present |-> FALSE, recorded |-> <<>>,
            target |-> <<>>, needs |-> FALSE, dirtyThen |-> FALSE]
NoFail == [failed |-> FALSE, key |-> "laws", step |-> "none", present |-> FALSE,
           before |-> <<>>]
NoSet == [set |-> FALSE, version |-> <<>>, at |-> 0, repeat |-> FALSE]
NoQuery == [done |-> FALSE, lat |-> 0, lng |-> 0, result |-> 0]
NoPress == [done |-> FALSE, lat |-> 0, lng |-> 0, precinct |-> 0,
            sector |-> [sectorId |-> <<0, "-">>, precinctNum |-> 0]]
NoNearest == [done |-> FALSE, lat |-> 0, lng |-> 0, variant |-> "repository", result |-> 0]
NoSearch == [done |-> FALSE, address |-> 0, geocoded |-> FALSE, outcome |-> "none"]
NoMonthCall == [done |-> FALSE]
NoPolygonCall == [done |-> FALSE, lat |-> 0, lng |-> 0,
                  geometry |-> [type |-> "none", coordinates |-> <<>>],
                  result |-> FALSE]

\* The variables a specification does not use keep these values.
LifeIdle ==
  /\ build = "bundled"
  /\ precincts = [n \in 1..NumPrecincts |-> "absent"]
  /\ sectors = {}
  /\ lawCategories = 0
  /\ lawEntries = 0
  /\ isDataLoaded = FALSE
  /\ pc = [t \in {"load", "refresh"} |-> "idle"]
  /\ ctx = [t \in {"load", "refresh"} |-> "initial"]
  /\ stage = [t \in {"load", "refresh"} |-> "precincts"]
  /\ todo = [t \in {"load", "refresh"} |-> {}]
  /\ loadResult = "pending"
  /\ providerPc = "done"
  /\ restarts = 0
  /\ retries = 0
  /\ upFail = NoFail
  /\ wrote = {}
  /\ refreshWrote = FALSE
  /\ dirty = FALSE
  /\ resolverRead = "none"
SyncIdle ==
  /\ lastSet = [k \in DatasetKey |-> NoSet]
  /\ loadComplete = "none"
TablesIdle ==
  /\ zones = {}
  /\ query = NoQuery
  /\ polyTests = 0
  /\ altResult = 0
  /\ nearest = NoNearest
  /\ sectorRows = <<>>
  /\ press = NoPress
  /\ selectedPrecinct = 0
  /\ selectedSector = [sectorId |-> <<0, "-">>, precinctNum |-> 0]
  /\ searchedAddress = <<>>
  /\ searchedLocation = <<>>
  /\ recentRows = <<>>
  /\ recentSearches = <<>>
  /\ addressSearch = NoSearch
NoSectorCall == [done |-> FALSE]
DbTasks == {"provider", "load"}
NoDbTask == [op |-> 0, step |-> "idle", held |-> 0, left |-> 0]
DbIdle ==
  /\ dbPromise = 0
  /\ dbInits = <<>>
  /\ dbTask = [t \in DbTasks |-> NoDbTask]
  /\ closedUse = {}
NoSearchCall == [op |-> "none"]
ExtraIdle ==
  /\ rdoSchedules = <<>>
  /\ sectorCall = NoSectorCall
  /\ DbIdle
  /\ recent_searches = <<>>
  /\ searchCall = NoSearchCall
GeoIdle ==
  TablesIdle /\ polygonCall = NoPolygonCall /\ monthCall = NoMonthCall /\ ExtraIdle

\* ------------------------------------------ SpecSync: the repository itself

\* The version strings the calls are made with.
SyncVersions == {V_2_0_0, V_9_0_0, V_10_0_0, V_11_0_0}

InitSync ==
  /\ data_versions = {}
  /\ now = 0
  /\ upgradeCheck = NoCheck
  /\ LifeIdle
  /\ SyncIdle
  /\ GeoIdle

\* Time passes between two calls.
Tick ==
  /\ now < MaxClock
  /\ now' = now + 1
  /\ UNCHANGED <<data_versions, upgradeCheck, lifeVars, syncVars, geoVars>>

\* A call setDataVersion(key, version).
CallSetDataVersion ==
  \E key \in DatasetKey, version \in SyncVersions :
    /\ data_versions' = SetDataVersion(data_versions, key, version, now)
    /\ lastSet' = [lastSet EXCEPT ![key] =
                   [set |-> TRUE, version |-> version, at |-> now,
                    repeat |-> /\ HasDataVersion(data_versions, key)
                               /\ VersionOf(data_versions, key) = version]]
    /\ loadComplete' = "none"
    /\ upgradeCheck' = NoCheck
    /\ UNCHANGED <<now, lifeVars, geoVars>>

\* A call isInitialLoadComplete().
CallIsInitialLoadComplete ==
  /\ loadComplete' = IF IsInitialLoadComplete(data_versions) THEN "yes" ELSE "no"
  /\ upgradeCheck' = NoCheck
  /\ UNCHANGED <<data_versions, now, lastSet, lifeVars, geoVars>>

\* The record of one upgrade test of `key` against `target`.
UpgradeTest(table, key, target, isDirty) ==
  [done |-> TRUE, key |-> key,
   present |-> HasDataVersion(table, key),
   recorded |-> IF HasDataVersion(table, key) THEN VersionOf(table, key) ELSE <<>>,
   target |-> target,
   needs |-> NeedsUpgrade(table, key, target),
   dirtyThen |-> isDirty]

\* The upgrade test of a dataset against the target version of some build.
CallNeedsUpgrade ==
  \E key \in {"precincts", "sectors"}, target \in SyncVersions :
    /\ upgradeCheck' = UpgradeTest(data_versions, key, target, FALSE)
    /\ loadComplete' = "none"
    /\ UNCHANGED <<data_versions, now, lastSet, lifeVars, geoVars>>

NextSync ==
  \/ Tick
  \/ CallSetDataVersion
  \/ CallIsInitialLoadComplete
  \/ CallNeedsUpgrade

SpecSync == InitSync /\ [][NextSync]_vars

\* --------------------------------------------- Spec: the application life cycle

Tasks == {"load", "refresh"}
PrecinctNums == 1..NumPrecincts
Min(S) == CHOOSE x \in S : \A y \in S : x <= y

\* Rows of law_categories the seed holds.
NumLawCategories == 4

\* const PRECINCT_VERSION of the installed build, SECTOR_VERSION, and the
\* version recorded for the law library.
PRECINCT_VERSION(b) == IF b = "bundled" THEN V_2_0_0 ELSE V_11_0_0
SECTOR_VERSION == V_2_0_0
LAWS_VERSION == V_1_0_0

\* Versions an earlier build may have recorded in the database it left.
LegacyVersions == {V_1_0_0, V_2_0_0}

\* A first launch on an empty database.
InitFresh ==
  /\ data_versions = {}
  /\ precincts = [n \in PrecinctNums |-> "absent"]
  /\ sectors = {}
  /\ lawCategories = 0
  /\ lawEntries = 0

\* A launch on the database an earlier build loaded: every version recorded,
\* the zone tables full, the law tables full or (the state the reset branch
\* of performInitialDataLoad is written for) empty.
InitLegacy ==
  /\ \E vp \in LegacyVersions, vs \in LegacyVersions :
       data_versions =
         {[datasetKey |-> "laws", version |-> LAWS_VERSION, lastSyncedAt |-> 0],
          [datasetKey |-> "precincts", version |-> vp, lastSyncedAt |-> 0],
          [datasetKey |-> "sectors", version |-> vs, lastSyncedAt |-> 0]}
  /\ precincts = [n \in PrecinctNums |-> "bundled"]
  /\ sectors = PrecinctNums \X {"A", "B"}
  /\ \E full \in BOOLEAN :
       /\ lawCategories = IF full THEN NumLawCategories ELSE 0
       /\ lawEntries = IF full THEN NumLawEntries ELSE 0

\* The in-memory state of a process that has just started: OnboardingScreen
\* mounts and calls startLoad, AppProvider's effect is pending.
Started ==
  /\ isDataLoaded = FALSE
  /\ pc = [t \in Tasks |-> IF t = "load" THEN "start" ELSE "idle"]
  /\ ctx = [t \in Tasks |-> "initial"]
  /\ stage = [t \in Tasks |-> "precincts"]
  /\ todo = [t \in Tasks |-> {}]
  /\ loadResult = "pending"
  /\ providerPc = "start"
  /\ upFail = NoFail
  /\ wrote = {}
  /\ refreshWrote = FALSE
  /\ resolverRead = "none"

Init ==
  /\ build \in {"bundled", "google"}
  /\ InitFresh \/ InitLegacy
  /\ now = 0
  /\ Started
  /\ restarts = 0
  /\ retries = 0
  /\ upgradeCheck = NoCheck
  /\ dirty = FALSE
  /\ SyncIdle
  /\ GeoIdle

\* Task t is between a DELETE of its sequence and the end of the repopulation
\* that follows it.
InWindow(t) ==
  /\ ctx[t] \in {"upgrade", "refresh"}
  /\ \/ stage[t] = "precincts" /\ pc[t] \in {"fetch", "ins_precinct", "verify"}
     \/ stage[t] = "precincts" /\ pc[t] = "del_precincts" /\ build = "google"
     \/ stage[t] = "sectors" /\ pc[t] \in {"read_precincts", "ins_sector"}

\* Task t has deleted the precinct rows and not finished inserting them again.
InPrecinctWindow(t) ==
  /\ ctx[t] \in {"upgrade", "refresh"}
  /\ stage[t] = "precincts"
  /\ pc[t] \in {"fetch", "ins_precinct", "verify"}

\* The statement task t awaits throws at step `step`: the catch block of
\* upgradeSectorsIfNeeded / upgradePrecinctsIfNeeded logs and returns, the
\* try/catch of performInitialDataLoad rethrows, doRefresh logs.
Throw(t, step) ==
  /\ pc' = [pc EXCEPT ![t] = "done"]
  /\ loadResult' = IF t # "load" THEN loadResult
                   ELSE IF ctx[t] = "upgrade" THEN "resolved" ELSE "rejected"
  /\ upFail' = IF t = "load" /\ ctx[t] = "upgrade"
               THEN [failed |-> TRUE, key |-> stage[t], step |-> step,
                     present |-> upgradeCheck.present,
                     before |-> upgradeCheck.recorded]
               ELSE upFail
  /\ dirty' = (dirty \/ (InPrecinctWindow(t) /\ step \in {"seed", "verify"}))

\* The sequence of task t ends normally.
Finish(t) ==
  /\ pc' = [pc EXCEPT ![t] = "done"]
  /\ loadResult' = IF t = "load" THEN "resolved" ELSE loadResult

\* performInitialDataLoad: const isComplete = await isInitialLoadComplete().
LoadIsInitialLoadComplete ==
  /\ pc["load"] = "start"
  /\ pc' = [pc EXCEPT !["load"] =
              IF IsInitialLoadComplete(data_versions) THEN "stats" ELSE "seed_squads"]
  /\ UNCHANGED <<build, data_versions, precincts, sectors, lawCategories, lawEntries,
                 now, isDataLoaded, ctx, stage, todo, loadResult, providerPc,
                 restarts, retries, upgradeCheck, upFail, wrote, refreshWrote, dirty,
                 resolverRead, syncVars, geoVars>>

\* performInitialDataLoad: getLawStats, then the upgrade or the reset branch.
LoadGetLawStats ==
  /\ pc["load"] = "stats"
  /\ IF lawCategories > 0 /\ lawEntries > 0
     THEN /\ pc' = [pc EXCEPT !["load"] = "up_check"]
          /\ ctx' = [ctx EXCEPT !["load"] = "upgrade"]
     ELSE /\ pc' = [pc EXCEPT !["load"] = "reset"]
          /\ ctx' = ctx
  /\ UNCHANGED <<build, data_versions, precincts, sectors, lawCategories, lawEntries,
                 now, isDataLoaded, stage, todo, loadResult, providerPc, restarts,
                 retries, upgradeCheck, upFail, wrote, refreshWrote, dirty,
                 resolverRead, syncVars, geoVars>>

\* resetDatabase: close, then deleteDatabaseAsync, whose failure is only logged.
LoadResetDatabase ==
  /\ pc["load"] = "reset"
  /\ pc' = [pc EXCEPT !["load"] = "seed_squads"]
  /\ \E deleted \in BOOLEAN :
       IF deleted
       THEN /\ data_versions' = {}
            /\ precincts' = [n \in PrecinctNums |-> "absent"]
            /\ sectors' = {}
            /\ lawCategories' = 0
            /\ lawEntries' = 0
            /\ dirty' = FALSE
       ELSE UNCHANGED <<data_versions, precincts, sectors, lawCategories, lawEntries,
                        dirty>>
  /\ UNCHANGED <<build, now, isDataLoaded, ctx, stage, todo, loadResult, providerPc,
                 restarts, retries, upgradeCheck, upFail, wrote, refreshWrote,
                 resolverRead, syncVars, geoVars>>

\* seedSquadsAndSchedules: it completes or one of its inserts throws.
SeedSquadsAndSchedules ==
  /\ pc["load"] = "seed_squads"
  /\ \/ /\ pc' = [pc EXCEPT !["load"] = "seed_laws"]
        /\ UNCHANGED <<loadResult, upFail, dirty>>
     \/ Throw("load", "other")
  /\ UNCHANGED <<build, data_versions, precincts, sectors, lawCategories, lawEntries,
                 now, isDataLoaded, ctx, stage, todo, providerPc, restarts, retries,
                 upgradeCheck, wrote, refreshWrote, resolverRead, syncVars, geoVars>>

\* seedLawLibrary: the categories (INSERT OR REPLACE), then the entries (plain
\* INSERT), then the counts; it completes or throws after some of the rows.
SeedLawLibrary ==
  /\ pc["load"] = "seed_laws"
  /\ \/ /\ lawCategories' = NumLawCategories
        /\ lawEntries' = lawEntries + NumLawEntries
        /\ pc' = [pc EXCEPT !["load"] = "ver_laws"]
        /\ UNCHANGED <<loadResult, upFail, dirty>>
     \/ /\ \E k \in 0..(NumLawEntries - 1) :
             /\ lawEntries' = lawEntries + k
             /\ lawCategories' \in
                  IF k > 0 THEN {NumLawCategories} ELSE {lawCategories, NumLawCategories}
        /\ Throw("load", "other")
  /\ UNCHANGED <<build, data_versions, precincts, sectors, now, isDataLoaded, ctx,
                 stage, todo, providerPc, restarts, retries, upgradeCheck, wrote,
                 refreshWrote, resolverRead, syncVars, geoVars>>

\* await setDataVersion('laws', '1.0.0').
SetVersionLaws ==
  /\ pc["load"] = "ver_laws"
  /\ \/ /\ data_versions' = SetDataVersion(data_versions, "laws", LAWS_VERSION, now)
        /\ wrote' = wrote \cup {"laws"}
        /\ pc' = [pc EXCEPT !["load"] = "fetch"]
        /\ UNCHANGED <<loadResult, upFail, dirty>>
     \/ /\ Throw("load", "setver")
        /\ UNCHANGED <<data_versions, wrote>>
  /\ UNCHANGED <<build, precincts, sectors, lawCategories, lawEntries, now,
                 isDataLoaded, ctx, stage, todo, providerPc, restarts, retries,
                 upgradeCheck, refreshWrote, resolverRead, syncVars, geoVars>>

\* Where task t goes once the precinct rows are inserted: the Google build
\* counts the rows first.
AfterSeedPrecincts == IF build = "google" THEN "verify" ELSE "ver_precincts"

\* seedPrecinctData (the bundled literal rows) or the fetch of
\* seedPrecinctDataFromGoogle: searchAndCollect returns early on a network
\* error or a failed status, so the map may hold any part of the precincts;
\* its response.json() is outside the try and may throw.
FetchPrecincts(t) ==
  /\ pc[t] = "fetch"
  /\ \/ /\ \E got \in (IF build = "google" THEN SUBSET PrecinctNums ELSE {PrecinctNums}) :
             /\ todo' = [todo EXCEPT ![t] = got]
             /\ pc' = [pc EXCEPT ![t] = IF got = {} THEN AfterSeedPrecincts
                                        ELSE "ins_precinct"]
        /\ UNCHANGED <<loadResult, upFail, dirty>>
     \/ /\ build = "google"
        /\ Throw(t, "seed")
        /\ todo' = todo
  /\ UNCHANGED <<build, data_versions, precincts, sectors, lawCategories, lawEntries,
                 now, isDataLoaded, ctx, stage, providerPc, restarts, retries,
                 upgradeCheck, wrote, refreshWrote, resolverRead, syncVars, geoVars>>

\* One turn of the loop over the rows: await insertPrecinct(p), INSERT OR
\* REPLACE by precinctNum.
InsertPrecinct(t) ==
  /\ pc[t] = "ins_precinct"
  /\ \/ /\ precincts' = [precincts EXCEPT ![Min(todo[t])] = build]
        /\ todo' = [todo EXCEPT ![t] = todo[t] \ {Min(todo[t])}]
        /\ pc' = [pc EXCEPT ![t] = IF todo'[t] = {} THEN AfterSeedPrecincts
                                   ELSE "ins_precinct"]
        /\ dirty' = (dirty /\ ~(build = "bundled" /\ todo'[t] = {}))
        /\ UNCHANGED <<loadResult, upFail>>
     \/ /\ Throw(t, "seed")
        /\ UNCHANGED <<precincts, todo>>
  /\ UNCHANGED <<build, data_versions, sectors, lawCategories, lawEntries, now,
                 isDataLoaded, ctx, stage, providerPc, restarts, retries, upgradeCheck,
                 wrote, refreshWrote, resolverRead, syncVars, geoVars>>

\* SELECT COUNT(*) FROM precincts; throw when it is 0.
VerifyCount(t) ==
  /\ pc[t] = "verify"
  /\ IF \A n \in PrecinctNums : precincts[n] = "absent"
     THEN Throw(t, "verify")
     ELSE /\ pc' = [pc EXCEPT ![t] = "ver_precincts"]
          /\ dirty' = FALSE
          /\ UNCHANGED <<loadResult, upFail>>
  /\ UNCHANGED <<build, data_versions, precincts, sectors, lawCategories, lawEntries,
                 now, isDataLoaded, ctx, stage, todo, providerPc, restarts, retries,
                 upgradeCheck, wrote, refreshWrote, resolverRead, syncVars, geoVars>>

\* The position after setDataVersion('precincts', ...): the bundled build goes
\* on to the sectors, the Google build and the refresh are done.
AfterVersionPrecincts(t) ==
  IF build = "bundled" /\ ctx[t] = "initial" THEN "read_precincts"
  ELSE IF build = "bundled" /\ ctx[t] = "upgrade" THEN "up_check"
  ELSE "done"

\* The version is written before the rows are (not the code): the write moved
\* to the point where the seeding starts.
SetVersionPrecinctsEarly(t) ==
  /\ pc[t] \in {"fetch", "ver_precincts"}
  /\ IF pc[t] = "fetch"
     THEN /\ data_versions' =
               SetDataVersion(data_versions, "precincts", PRECINCT_VERSION(build), now)
          /\ wrote' = IF t = "load" THEN wrote \cup {"precincts"} ELSE wrote
          /\ todo' = [todo EXCEPT ![t] = PrecinctNums]
          /\ pc' = [pc EXCEPT ![t] = "ins_precinct"]
          /\ UNCHANGED <<stage, loadResult, refreshWrote, dirty, upFail>>
     ELSE /\ pc' = [pc EXCEPT ![t] = AfterVersionPrecincts(t)]
          /\ stage' = [stage EXCEPT ![t] = "sectors"]
          /\ loadResult' = IF t = "load" /\ AfterVersionPrecincts(t) = "done"
                           THEN "resolved" ELSE loadResult
          /\ UNCHANGED <<data_versions, wrote, todo, refreshWrote, dirty, upFail>>
  /\ UNCHANGED <<build, precincts, sectors, lawCategories, lawEntries, now,
                 isDataLoaded, ctx, providerPc, restarts, retries, upgradeCheck,
                 resolverRead, syncVars, geoVars>>

\* await setDataVersion('precincts', PRECINCT_VERSION), reached once the rows
\* are in (and, in the Google build, counted).
SetVersionPrecincts(t) ==
  /\ pc[t] = "ver_precincts"
  /\ \/ /\ data_versions' =
             SetDataVersion(data_versions, "precincts", PRECINCT_VERSION(build), now)
        /\ wrote' = IF t = "load" THEN wrote \cup {"precincts"} ELSE wrote
        /\ refreshWrote' = (refreshWrote \/ t = "refresh")
        /\ pc' = [pc EXCEPT ![t] = AfterVersionPrecincts(t)]
        /\ stage' = [stage EXCEPT ![t] = "sectors"]
        /\ loadResult' = IF t = "load" /\ AfterVersionPrecincts(t) = "done"
                         THEN "resolved" ELSE loadResult
        /\ UNCHANGED <<upFail, dirty>>
     \/ /\ Throw(t, "setver")
        /\ UNCHANGED <<data_versions, wrote, refreshWrote, stage>>
  /\ UNCHANGED <<build, precincts, sectors, lawCategories, lawEntries, now,
                 isDataLoaded, ctx, todo, providerPc, restarts, retries, upgradeCheck,
                 resolverRead, syncVars, geoVars>>

\* seedSectorData: SELECT * FROM precincts; the rows whose boundaryJson holds
\* a ring (those of the bundled seed) each yield two sectors, the others throw
\* inside the loop's try and are skipped.
ReadPrecinctsForSectors ==
  /\ pc["load"] = "read_precincts"
  /\ LET rows == {n \in PrecinctNums : precincts[n] = "bundled"}
     IN /\ todo' = [todo EXCEPT !["load"] = rows]
        /\ pc' = [pc EXCEPT !["load"] = IF rows = {} THEN "ver_sectors" ELSE "ins_sector"]
  /\ UNCHANGED <<build, data_versions, precincts, sectors, lawCategories, lawEntries,
                 now, isDataLoaded, ctx, stage, loadResult, providerPc, restarts,
                 retries, upgradeCheck, upFail, wrote, refreshWrote, dirty,
                 resolverRead, syncVars, geoVars>>

\* One turn of the loop of seedSectorData: insertSector(A), insertSector(B);
\* a throw of either is swallowed by the loop's catch, and B is not tried
\* once A has thrown.
InsertSectors ==
  /\ pc["load"] = "ins_sector"
  /\ \E added \in {{}, {"A"}, {"A", "B"}} :
       sectors' = sectors \cup ({Min(todo["load"])} \X added)
  /\ todo' = [todo EXCEPT !["load"] = todo["load"] \ {Min(todo["load"])}]
  /\ pc' = [pc EXCEPT !["load"] = IF todo'["load"] = {} THEN "ver_sectors"
                                  ELSE "ins_sector"]
  /\ UNCHANGED <<build, data_versions, precincts, lawCategories, lawEntries, now,
                 isDataLoaded, ctx, stage, loadResult, providerPc, restarts, retries,
                 upgradeCheck, upFail, wrote, refreshWrote, dirty, resolverRead,
                 syncVars, geoVars>>

\* await setDataVersion('sectors', SECTOR_VERSION): the last step of the
\* bundled build's load and upgrade.
SetVersionSectors ==
  /\ pc["load"] = "ver_sectors"
  /\ \/ /\ data_versions' = SetDataVersion(data_versions, "sectors", SECTOR_VERSION, now)
        /\ wrote' = wrote \cup {"sectors"}
        /\ Finish("load")
        /\ UNCHANGED <<upFail, dirty>>
     \/ /\ Throw("load", "setver")
        /\ UNCHANGED <<data_versions, wrote>>
  /\ UNCHANGED <<build, precincts, sectors, lawCategories, lawEntries, now,
                 isDataLoaded, ctx, stage, todo, providerPc, restarts, retries,
                 upgradeCheck, refreshWrote, resolverRead, syncVars, geoVars>>

\* upgradeSectorsIfNeeded / upgradePrecinctsIfNeeded: getDataVersion of the
\* stage's dataset and the test `!ver || ver.version < TARGET`.
UpCheck ==
  /\ pc["load"] = "up_check"
  /\ LET target == IF stage["load"] = "precincts" THEN PRECINCT_VERSION(build)
                   ELSE SECTOR_VERSION
         \* the table is the leftover of an earlier launch's failed reseed:
         \* nothing of this launch has deleted from it yet
         leftover == dirty /\ pc["refresh"] = "idle"
         test == UpgradeTest(data_versions, stage["load"], target, leftover)
     IN /\ upgradeCheck' = test
        /\ IF test.needs
           THEN /\ pc' = [pc EXCEPT !["load"] =
                            IF build = "bundled" /\ stage["load"] = "precincts"
                            THEN "del_precincts" ELSE "del_sectors"]
                /\ UNCHANGED <<stage, loadResult>>
           ELSE IF build = "bundled" /\ stage["load"] = "precincts"
           THEN /\ stage' = [stage EXCEPT !["load"] = "sectors"]
                /\ UNCHANGED <<pc, loadResult>>
           ELSE /\ Finish("load")
                /\ stage' = stage
  /\ refreshWrote' = FALSE
  /\ UNCHANGED <<build, data_versions, precincts, sectors, lawCategories, lawEntries,
                 now, isDataLoaded, ctx, todo, providerPc, restarts, retries, upFail,
                 wrote, dirty, resolverRead, syncVars, geoVars>>

\* await db.runAsync('DELETE FROM sectors').
DeleteSectors(t) ==
  /\ pc[t] = "del_sectors"
  /\ \/ /\ sectors' = {}
        /\ pc' = [pc EXCEPT ![t] = IF build = "google" THEN "del_precincts"
                                   ELSE "read_precincts"]
        /\ UNCHANGED <<loadResult, upFail, dirty>>
     \/ /\ Throw(t, "delete")
        /\ sectors' = sectors
  /\ UNCHANGED <<build, data_versions, precincts, lawCategories, lawEntries, now,
                 isDataLoaded, ctx, stage, todo, providerPc, restarts, retries,
                 upgradeCheck, wrote, refreshWrote, resolverRead, syncVars, geoVars>>

\* await db.runAsync('DELETE FROM precincts').
DeletePrecincts(t) ==
  /\ pc[t] = "del_precincts"
  /\ \/ /\ precincts' = [n \in PrecinctNums |-> "absent"]
        /\ pc' = [pc EXCEPT ![t] = "fetch"]
        /\ UNCHANGED <<loadResult, upFail, dirty>>
     \/ /\ Throw(t, "delete")
        /\ precincts' = precincts
  /\ UNCHANGED <<build, data_versions, sectors, lawCategories, lawEntries, now,
                 isDataLoaded, ctx, stage, todo, providerPc, restarts, retries,
                 upgradeCheck, wrote, refreshWrote, resolverRead, syncVars, geoVars>>

\* startLoad after its await: setIsDataLoaded(true), or the catch's setError.
StartLoadSettle ==
  /\ pc["load"] = "done"
  /\ IF loadResult = "resolved"
     THEN /\ isDataLoaded' = TRUE
          /\ pc' = [pc EXCEPT !["load"] = "finished"]
     ELSE /\ isDataLoaded' = isDataLoaded
          /\ pc' = [pc EXCEPT !["load"] = "error"]
  /\ UNCHANGED <<build, data_versions, precincts, sectors, lawCategories, lawEntries,
                 now, ctx, stage, todo, loadResult, providerPc, restarts, retries,
                 upgradeCheck, upFail, wrote, refreshWrote, dirty, resolverRead,
                 syncVars, geoVars>>

\* The Retry button of the onboarding screen: startLoad again.
Retry ==
  /\ pc["load"] = "error"
  /\ ~isDataLoaded
  /\ retries < MaxRetries
  /\ retries' = retries + 1
  /\ pc' = [pc EXCEPT !["load"] = "start"]
  /\ ctx' = [ctx EXCEPT !["load"] = "initial"]
  /\ stage' = [stage EXCEPT !["load"] = "precincts"]
  /\ todo' = [todo EXCEPT !["load"] = {}]
  /\ loadResult' = "pending"
  /\ upFail' = NoFail
  /\ wrote' = {}
  /\ UNCHANGED <<build, data_versions, precincts, sectors, lawCategories, lawEntries,
                 now, isDataLoaded, providerPc, restarts, upgradeCheck, refreshWrote,
                 dirty, resolverRead, syncVars, geoVars>>

\* The calendar tab's mount effect: getAllPrecincts, and doRefresh when there
\* are rows and none of them has opening hours (the rows of the Google seed
\* always have them, the bundled rows never).
StartRefresh ==
  /\ build = "google"
  /\ isDataLoaded
  /\ pc["refresh"] = "idle"
  /\ \E n \in PrecinctNums : precincts[n] # "absent"
  /\ \A n \in PrecinctNums : precincts[n] # "google"
  /\ pc' = [pc EXCEPT !["refresh"] = "del_sectors"]
  /\ ctx' = [ctx EXCEPT !["refresh"] = "refresh"]
  /\ stage' = [stage EXCEPT !["refresh"] = "precincts"]
  /\ UNCHANGED <<build, data_versions, precincts, sectors, lawCategories, lawEntries,
                 now, isDataLoaded, todo, loadResult, providerPc, restarts, retries,
                 upgradeCheck, upFail, wrote, refreshWrote, dirty, resolverRead,
                 syncVars, geoVars>>

\* doRefresh after its await: the rows are read again, a throw is logged.
RefreshSettle ==
  /\ pc["refresh"] = "done"
  /\ pc' = [pc EXCEPT !["refresh"] = "finished"]
  /\ UNCHANGED <<build, data_versions, precincts, sectors, lawCategories, lawEntries,
                 now, isDataLoaded, ctx, stage, todo, loadResult, providerPc,
                 restarts, retries, upgradeCheck, upFail, wrote, refreshWrote, dirty,
                 resolverRead, syncVars, geoVars>>

\* AppProvider's mount effect: const loaded = await isInitialLoadComplete().
ProviderIsInitialLoadComplete ==
  /\ providerPc = "start"
  /\ providerPc' = IF IsInitialLoadComplete(data_versions) THEN "stats" ELSE "done"
  /\ UNCHANGED <<build, data_versions, precincts, sectors, lawCategories, lawEntries,
                 now, isDataLoaded, pc, ctx, stage, todo, loadResult, restarts,
                 retries, upgradeCheck, upFail, wrote, refreshWrote, dirty,
                 resolverRead, syncVars, geoVars>>

\* AppProvider's mount effect: getLawStats, then setIsDataLoaded(true).
ProviderGetLawStats ==
  /\ providerPc = "stats"
  /\ providerPc' = "done"
  /\ isDataLoaded' = (isDataLoaded \/ (lawCategories > 0 /\ lawEntries > 0))
  /\ UNCHANGED <<build, data_versions, precincts, sectors, lawCategories, lawEntries,
                 now, pc, ctx, stage, todo, loadResult, restarts, retries,
                 upgradeCheck, upFail, wrote, refreshWrote, dirty, resolverRead,
                 syncVars, geoVars>>

\* handleMapPress on the map tab (mounted once isDataLoaded is true): the
\* resolver reads the precincts and sectors tables.
MapPress ==
  /\ isDataLoaded
  /\ resolverRead' = IF \E t \in Tasks : InWindow(t) THEN "mid_reseed" ELSE "consistent"
  /\ UNCHANGED <<build, data_versions, precincts, sectors, lawCategories, lawEntries,
                 now, isDataLoaded, pc, ctx, stage, todo, loadResult, providerPc,
                 restarts, retries, upgradeCheck, upFail, wrote, refreshWrote, dirty,
                 syncVars, geoVars>>

\* The process ends (the app is closed or killed, possibly replaced by the
\* build that seeds from Google) and is started again: the database stays,
\* the in-memory state starts over.
Restart ==
  /\ restarts < MaxRestarts
  /\ restarts' = restarts + 1
  /\ build' \in IF build = "bundled" THEN {"bundled", "google"} ELSE {"google"}
  /\ dirty' = (dirty \/ \E t \in Tasks : InPrecinctWindow(t))
  /\ isDataLoaded' = FALSE
  /\ pc' = [t \in Tasks |-> IF t = "load" THEN "start" ELSE "idle"]
  /\ ctx' = [t \in Tasks |-> "initial"]
  /\ stage' = [t \in Tasks |-> "precincts"]
  /\ todo' = [t \in Tasks |-> {}]
  /\ loadResult' = "pending"
  /\ providerPc' = "start"
  /\ upFail' = NoFail
  /\ wrote' = {}
  /\ refreshWrote' = FALSE
  /\ resolverRead' = "none"
  /\ upgradeCheck' = NoCheck
  /\ retries' = 0
  /\ UNCHANGED <<data_versions, precincts, sectors, lawCategories, lawEntries, now,
                 syncVars, geoVars>>

Next ==
  \/ LoadIsInitialLoadComplete
  \/ LoadGetLawStats
  \/ LoadResetDatabase
  \/ SeedSquadsAndSchedules
  \/ SeedLawLibrary
  \/ SetVersionLaws
  \/ \E t \in Tasks : FetchPrecincts(t)
  \/ \E t \in Tasks : InsertPrecinct(t)
  \/ \E t \in Tasks : VerifyCount(t)
  \/ \E t \in Tasks : SetVersionPrecincts(t)
  \/ ReadPrecinctsForSectors
  \/ InsertSectors
  \/ SetVersionSectors
  \/ UpCheck
  \/ \E t \in Tasks : DeleteSectors(t)
  \/ \E t \in Tasks : DeletePrecincts(t)
  \/ StartLoadSettle
  \/ Retry
  \/ StartRefresh
  \/ RefreshSettle
  \/ ProviderIsInitialLoadComplete
  \/ ProviderGetLawStats
  \/ MapPress
  \/ Restart

Spec == Init /\ [][Next]_vars

\* --------------------------------------------- SpecGeo: the zone resolver

\* Query points have integer coordinates in -1..MaxCoord.
MaxCoord == 5
Coords == (0 - 1)..MaxCoord

\* parseBoundingBox: the JSON text is modelled by the array it holds; an
\* array of a length other than 4 gives null.
BoundingBoxIsNull(json) == Len(json) # 4
parseBoundingBox(json) ==
  [minLat |-> json[1], minLng |-> json[2], maxLat |-> json[3], maxLng |-> json[4]]

\* Only the latitude is tested (not the code).
isPointInBoundingBoxLatOnly(point, bbox) ==
  /\ point.latitude >= bbox.minLat
  /\ point.latitude <= bbox.maxLat

isPointInBoundingBox(point, bbox) ==
  /\ point.latitude >= bbox.minLat
  /\ point.latitude <= bbox.maxLat
  /\ point.longitude >= bbox.minLng
  /\ point.longitude <= bbox.maxLng

\* The distance with its sign turned (not the code).
distanceToNegated(a, b) ==
  LET dlat == a.latitude - b.latitude
      dlng == a.longitude - b.longitude
  IN 0 - (dlat * dlat + dlng * dlng)

distanceTo(a, b) ==
  LET dlat == a.latitude - b.latitude
      dlng == a.longitude - b.longitude
  IN dlat * dlat + dlng * dlng

\* The test of one turn of rayCasting's loop, for the edge from ring[j] to
\* ring[i]; coordinates are [lng, lat]. The quotient is compared exactly:
\* lng - xi < n / d is (lng - xi) * d < n for d > 0 and the reverse for d < 0
\* (d is not 0 when the first conjunct holds).
EdgeCrossed(lat, lng, ring, i, j) ==
  LET yi == ring[i][2]
      xi == ring[i][1]
      yj == ring[j][2]
      xj == ring[j][1]
      n == (xj - xi) * (lat - yi)
      d == yj - yi
  IN /\ (yi > lat) # (yj > lat)
     /\ IF d > 0 THEN (lng - xi) * d < n ELSE (lng - xi) * d > n

\* The loop of rayCasting from index i on (1-based), j being the index before.
RECURSIVE rayCastingFrom(_, _, _, _, _, _)
rayCastingFrom(lat, lng, ring, i, j, inside) ==
  IF i > Len(ring) THEN inside
  ELSE rayCastingFrom(lat, lng, ring, i + 1, i,
                      IF EdgeCrossed(lat, lng, ring, i, j) THEN ~inside ELSE inside)

\* The latitude and the longitude taken from the wrong positions (not the code).
rayCastingSwapped(lat, lng, ring) ==
  rayCastingFrom(lng, lat, ring, 1, Len(ring), FALSE)

rayCasting(lat, lng, ring) ==
  rayCastingFrom(lat, lng, ring, 1, Len(ring), FALSE)

isPointInSinglePolygon(point, coordinates) ==
  IF Len(coordinates) = 0 THEN FALSE
  ELSE rayCasting(point.latitude, point.longitude, coordinates[1])

\* Of a MultiPolygon only the first polygon is tested (not the code).
isPointInPolygonFirstOnly(point, geometry) ==
  IF geometry.type = "Polygon"
  THEN isPointInSinglePolygon(point, geometry.coordinates)
  ELSE IF geometry.type = "MultiPolygon"
  THEN /\ Len(geometry.coordinates) > 0
       /\ isPointInSinglePolygon(point, geometry.coordinates[1])
  ELSE FALSE

\* A geometry is the parsed boundaryJson: '{}' has no type.
isPointInPolygon(point, geometry) ==
  IF geometry.type = "Polygon"
  THEN isPointInSinglePolygon(point, geometry.coordinates)
  ELSE IF geometry.type = "MultiPolygon"
  THEN \E k \in 1..Len(geometry.coordinates) :
         isPointInSinglePolygon(point, geometry.coordinates[k])
  ELSE FALSE

\* The statements inside the try of the resolvers' loops, for one candidate:
\* JSON.parse(boundaryJson), which throws on text that is not JSON, then
\* isPointInPolygon.  A geometry without a coordinates member gives false for
\* a Polygon (!coordinates) and for a type that is neither, and throws for a
\* MultiPolygon (coordinates.some of undefined).
JsonParseThrows(json) == json.type = "unparseable"
HasCoordinates(geometry) == "coordinates" \in DOMAIN geometry
TryPolygonTest(point, json) ==
  IF JsonParseThrows(json) THEN "throws"
  ELSE IF ~HasCoordinates(json)
  THEN (IF json.type = "MultiPolygon" THEN "throws" ELSE "out")
  ELSE IF isPointInPolygon(point, json) THEN "in"
  ELSE "out"

\* SELECT * FROM precincts: the rows in the order of the integer primary key.
RECURSIVE SelectAllPrecincts(_)
SelectAllPrecincts(rows) ==
  IF rows = {} THEN <<>>
  ELSE LET first == CHOOSE r \in rows :
                      \A o \in rows : r.precinctNum <= o.precinctNum
       IN <<first>> \o SelectAllPrecincts(rows \ {first})

\* precincts.filter(p => bbox && isPointInBoundingBox(point, bbox)) on the
\* array `scan` that the SELECT returned.
BBoxFilter(scan, point) ==
  SelectSeq(scan,
            LAMBDA p : /\ ~BoundingBoxIsNull(p.boundingBoxJson)
                       /\ isPointInBoundingBox(point, parseBoundingBox(p.boundingBoxJson)))
BBoxCandidates(rows, point) == BBoxFilter(SelectAllPrecincts(rows), point)

\* The loop without its try/catch: a throw ends the call, match = -1 (not
\* the code).
RECURSIVE BestMatchFromNoCatch(_, _, _, _)
BestMatchFromNoCatch(candidates, point, k, best) ==
  IF k > Len(candidates) THEN best
  ELSE LET precinct == candidates[k]
           dist == distanceTo(point, [latitude |-> precinct.centroidLat,
                                      longitude |-> precinct.centroidLng])
       IN IF TryPolygonTest(point, precinct.boundaryJson) = "throws"
          THEN [match |-> 0 - 1, dist |-> 0]
          ELSE BestMatchFromNoCatch(candidates, point, k + 1,
                 IF /\ TryPolygonTest(point, precinct.boundaryJson) = "in"
                    /\ (best.match = 0 \/ dist < best.dist)
                 THEN [match |-> precinct.precinctNum, dist |-> dist]
                 ELSE best)

\* The loop over the candidates from index k on; best.match = 0 is null, and
\* then the distance kept is Infinity, which every distance is less than. A
\* candidate whose test throws is skipped by the catch.
RECURSIVE BestMatchFrom(_, _, _, _)
BestMatchFrom(candidates, point, k, best) ==
  IF k > Len(candidates) THEN best
  ELSE LET precinct == candidates[k]
           dist == distanceTo(point, [latitude |-> precinct.centroidLat,
                                      longitude |-> precinct.centroidLng])
       IN BestMatchFrom(candidates, point, k + 1,
            IF /\ TryPolygonTest(point, precinct.boundaryJson) = "in"
               /\ (best.match = 0 \/ dist < best.dist)
            THEN [match |-> precinct.precinctNum, dist |-> dist]
            ELSE best)

\* findPrecinctAtLocation: the precinctNum of the row returned, 0 for null.
findPrecinctAtLocation(rows, point) ==
  BestMatchFrom(BBoxCandidates(rows, point), point, 1, [match |-> 0, dist |-> 0]).match

\* The statement has no ORDER BY: the arrays a scan of the rows may return,
\* every order of them.
ScanOrders(rows) ==
  {scan \in [1..Cardinality(rows) -> rows] : \A r \in rows : \E i \in DOMAIN scan : scan[i] = r}

\* findPrecinctAtLocation when the SELECT returns the array `scan`.
findPrecinctInScan(scan, point) ==
  BestMatchFrom(BBoxFilter(scan, point), point, 1, [match |-> 0, dist |-> 0]).match

\* The calls of isPointInPolygon during findPrecinctAtLocation: one for each
\* candidate whose boundaryJson JSON.parse accepts.
PolygonTests(rows, point) ==
  Len(SelectSeq(BBoxCandidates(rows, point),
                LAMBDA p : ~JsonParseThrows(p.boundaryJson)))

\* The threshold of findNearestPrecinct on the squared distance: 0.0009 in
\* precinctRepository.ts, 0.05 in the variant of part_002. One unit of the
\* grid is 0.01 degree, so squared distances are in units of 0.0001.
NearestVariants == {"repository", "part_002"}
NearestThreshold(variant) == IF variant = "repository" THEN 9 ELSE 500

\* The loop of findNearestPrecinct from index k on; best.match = 0 is null,
\* and then minDist is Infinity, which every distance is less than.
RECURSIVE NearestFrom(_, _, _, _)
NearestFrom(scan, point, k, best) ==
  IF k > Len(scan) THEN best
  ELSE LET p == scan[k]
           dist == distanceTo(point, [latitude |-> p.centroidLat,
                                      longitude |-> p.centroidLng])
       IN NearestFrom(scan, point, k + 1,
                      IF best.match = 0 \/ dist < best.dist
                      THEN [match |-> p.precinctNum, dist |-> dist]
                      ELSE best)

\* The nearest zone is returned however far it is (not the code).
findNearestPrecinctAnyDistance(rows, point, variant) ==
  NearestFrom(SelectAllPrecincts(rows), point, 1, [match |-> 0, dist |-> 0]).match

\* findNearestPrecinct: the precinctNum of the row returned, 0 for null
\* (Infinity exceeds the threshold when the table is empty).
findNearestPrecinct(rows, point, variant) ==
  LET best == NearestFrom(SelectAllPrecincts(rows), point, 1, [match |-> 0, dist |-> 0])
  IN IF best.match = 0 \/ best.dist > NearestThreshold(variant) THEN 0 ELSE best.match

\* ------------------------------------------------- SpecGeo: the sub-zones

\* The running minimum and maximum of the loops of computeBoundingBox and
\* buildSector; `unset` stands for the initial Infinity / -Infinity, which
\* the first coordinate replaces.
UnsetBox == [unset |-> TRUE, minLat |-> 0, minLng |-> 0, maxLat |-> 0, maxLng |-> 0]

\* Only the first coordinate is taken (not the code).
BoxWithFirstOnly(box, coord) ==
  IF box.unset
  THEN [unset |-> FALSE, minLat |-> coord[2], maxLat |-> coord[2],
        minLng |-> coord[1], maxLng |-> coord[1]]
  ELSE box

BoxWith(box, coord) ==
  [unset |-> FALSE,
   minLat |-> IF box.unset \/ coord[2] < box.minLat THEN coord[2] ELSE box.minLat,
   maxLat |-> IF box.unset \/ coord[2] > box.maxLat THEN coord[2] ELSE box.maxLat,
   minLng |-> IF box.unset \/ coord[1] < box.minLng THEN coord[1] ELSE box.minLng,
   maxLng |-> IF box.unset \/ coord[1] > box.maxLng THEN coord[1] ELSE box.maxLng]

\* for (const coord of ring) from index k on.
RECURSIVE BoxOfRingFrom(_, _, _)
BoxOfRingFrom(ring, k, box) ==
  IF k > Len(ring) THEN box
  ELSE BoxOfRingFrom(ring, k + 1, BoxWith(box, ring[k]))

\* for (const ring of coordinates) from index k on.
RECURSIVE BoxOfRingsFrom(_, _, _)
BoxOfRingsFrom(coordinates, k, box) ==
  IF k > Len(coordinates) THEN box
  ELSE BoxOfRingsFrom(coordinates, k + 1, BoxOfRingFrom(coordinates[k], 1, box))

\* computeBoundingBox(coordinates): { minLat, minLng, maxLat, maxLng }.
computeBoundingBox(coordinates) == BoxOfRingsFrom(coordinates, 1, UnsetBox)

\* buildSector: the same loop over the sector's one ring, written to
\* boundingBoxJson as [minLat, minLng, maxLat, maxLng].
buildSector(sectorId, precinctNum, coords) ==
  LET box == BoxOfRingFrom(coords, 1, UnsetBox)
  IN [sectorId |-> sectorId,
      precinctNum |-> precinctNum,
      boundaryJson |-> [type |-> "Polygon", coordinates |-> <<coords>>],
      boundingBoxJson |-> <<box.minLat, box.minLng, box.maxLat, box.maxLng>>]

\* The body of the loop of seedSectorData for the precinct row p: sectors A
\* and B from the two halves of the ring, each closed by a cut back to the
\* first vertex.
SectorsOfPrecinct(p) ==
  LET coords == p.boundaryJson.coordinates[1]
      n == Len(coords) - 1
      half == n \div 2
      sectorACoords == SubSeq(coords, 1, half + 1) \o <<coords[1]>>
      sectorBCoords == <<coords[1]>> \o SubSeq(coords, half + 1, Len(coords)) \o <<coords[1]>>
  IN <<buildSector(<<p.precinctNum, "A">>, p.precinctNum, sectorACoords),
       buildSector(<<p.precinctNum, "B">>, p.precinctNum, sectorBCoords)>>

\* insertSector: INSERT OR REPLACE by sectorId; the replaced row goes and the
\* new one is the last of the table.
insertSector(table, s) ==
  SelectSeq(table, LAMBDA r : r.sectorId # s.sectorId) \o <<s>>

\* seedSectorData from index k of the precinct rows on: a row whose
\* boundaryJson does not parse, or has no coordinates[0], throws inside the
\* try and is skipped.  The rows of the model that have a ring are Polygons.
RECURSIVE SeedSectorsFrom(_, _, _)
SeedSectorsFrom(scan, k, table) ==
  IF k > Len(scan) THEN table
  ELSE SeedSectorsFrom(scan, k + 1,
         IF /\ ~JsonParseThrows(scan[k].boundaryJson)
            /\ HasCoordinates(scan[k].boundaryJson)
            /\ Len(scan[k].boundaryJson.coordinates) > 0
         THEN insertSector(insertSector(table, SectorsOfPrecinct(scan[k])[1]),
                           SectorsOfPrecinct(scan[k])[2])
         ELSE table)

\* The loop of findSectorAtLocation from index k on: the first candidate
\* whose polygon has the point is returned (its sectorId and precinctNum),
\* NoSector for null; a candidate whose test throws is skipped by the catch.
NoSector == [sectorId |-> <<0, "-">>, precinctNum |-> 0]
RECURSIVE FirstSectorFrom(_, _, _)
FirstSectorFrom(candidates, point, k) ==
  IF k > Len(candidates) THEN NoSector
  ELSE IF TryPolygonTest(point, candidates[k].boundaryJson) = "in"
  THEN [sectorId |-> candidates[k].sectorId, precinctNum |-> candidates[k].precinctNum]
  ELSE FirstSectorFrom(candidates, point, k + 1)

\* findSectorAtLocation on the rows of the sectors table, in rowid order.
findSectorAtLocation(table, point) ==
  FirstSectorFrom(BBoxFilter(table, point), point, 1)

\* The exterior ring's extent as boundingBoxJson writes it,
\* [minLat, minLng, maxLat, maxLng]: the literals of seedPrecinctData are the
\* extents of their rings.
Extent(ring) ==
  LET lats == {ring[i][2] : i \in 1..Len(ring)}
      lngs == {ring[i][1] : i \in 1..Len(ring)}
      Least(S) == CHOOSE x \in S : \A y \in S : x <= y
      Most(S) == CHOOSE x \in S : \A y \in S : x >= y
  IN <<Least(lats), Least(lngs), Most(lats), Most(lngs)>>

\* A row as seedPrecinctData writes it: a Polygon of one closed ring.
BundledRow(num, ring, cLat, cLng) ==
  [precinctNum |-> num,
   boundaryJson |-> [type |-> "Polygon", coordinates |-> <<ring>>],
   centroidLat |-> cLat, centroidLng |-> cLng,
   boundingBoxJson |-> Extent(ring)]

\* A row as seedPrecinctDataFromGoogle writes it: boundaryJson '{}',
\* boundingBoxJson '[]'.
GoogleRow(num, cLat, cLng) ==
  [precinctNum |-> num,
   boundaryJson |-> [type |-> "none", coordinates |-> <<>>],
   centroidLat |-> cLat, centroidLng |-> cLng,
   boundingBoxJson |-> <<>>]

\* The rings of the rows the model inserts, as [lng, lat] pairs: a square, a
\* diamond that overlaps it, and a concave ring with a notch.
SquareRing == <<<<0, 0>>, <<3, 0>>, <<3, 3>>, <<0, 3>>, <<0, 0>>>>
DiamondRing == <<<<3, 1>>, <<5, 3>>, <<3, 5>>, <<1, 3>>, <<3, 1>>>>
NotchRing == <<<<0, 0>>, <<4, 0>>, <<4, 4>>, <<2, 1>>, <<0, 4>>, <<0, 0>>>>
ZoneCatalogue ==
  {BundledRow(1, SquareRing, 1, 1),
   BundledRow(2, DiamondRing, 3, 3),
   BundledRow(3, NotchRing, 1, 2),
   BundledRow(3, SquareRing, 2, 2),
   GoogleRow(1, 1, 1),
   GoogleRow(2, 3, 3)}

InitGeo ==
  /\ LifeIdle
  /\ data_versions = {}
  /\ now = 0
  /\ upgradeCheck = NoCheck
  /\ SyncIdle
  /\ GeoIdle

\* The variables of SpecGeo other than the table record the last call made
\* on it; a change of the table clears them.  The state of the screens
\* changes in the handlers of the search screen only.
ClearCalls(keep) ==
  /\ keep # "query" => (query' = NoQuery /\ polyTests' = 0 /\ altResult' = 0)
  /\ keep # "nearest" => nearest' = NoNearest
  /\ keep # "press" => press' = NoPress
  /\ keep # "search" => (addressSearch' = NoSearch /\ UNCHANGED uiVars)
  /\ keep # "polygon" => polygonCall' = NoPolygonCall
  /\ UNCHANGED <<monthCall, extraVars>>
ResetCalls == ClearCalls("none")

\* insertPrecinct: INSERT OR REPLACE by precinctNum.  The loaders fill the
\* zone table before the sub-zones are seeded (stage 3 before stage 4;
\* DELETE FROM sectors before the zones are replaced).
CallInsertPrecinct ==
  /\ sectorRows = <<>>
  /\ \E p \in ZoneCatalogue :
       zones' = {z \in zones : z.precinctNum # p.precinctNum} \cup {p}
  /\ ResetCalls
  /\ UNCHANGED <<lifeVars, data_versions, now, upgradeCheck, syncVars, sectorRows>>

\* DELETE FROM precincts, which the loaders run after DELETE FROM sectors.
CallDeletePrecincts ==
  /\ zones # {}
  /\ sectorRows = <<>>
  /\ zones' = {}
  /\ ResetCalls
  /\ UNCHANGED <<lifeVars, data_versions, now, upgradeCheck, syncVars, sectorRows>>

\* findPrecinctAtLocation(point) on the rows of the table.
CallFindPrecinctAtLocation ==
  /\ \E lat \in Coords, lng \in Coords :
       LET point == [latitude |-> lat, longitude |-> lng]
       IN /\ query' = [done |-> TRUE, lat |-> lat, lng |-> lng,
                       result |-> findPrecinctAtLocation(zones, point)]
          /\ polyTests' = PolygonTests(zones, point)
          /\ \E scan \in ScanOrders(zones) :
               altResult' = findPrecinctInScan(scan, point)
  /\ ClearCalls("query")
  /\ UNCHANGED <<lifeVars, data_versions, now, upgradeCheck, syncVars, zones, sectorRows>>

\* findNearestPrecinct(point) on the rows of the table.
CallFindNearestPrecinct ==
  /\ \E lat \in Coords, lng \in Coords, variant \in NearestVariants :
       nearest' = [done |-> TRUE, lat |-> lat, lng |-> lng, variant |-> variant,
                   result |-> findNearestPrecinct(
                                zones, [latitude |-> lat, longitude |-> lng], variant)]
  /\ ClearCalls("nearest")
  /\ UNCHANGED <<lifeVars, data_versions, now, upgradeCheck, syncVars, zones, sectorRows>>

\* seedSectorData: SELECT * FROM precincts, two sectors for each row.  Both
\* call sites run it on an empty sector table.
CallSeedSectorData ==
  /\ sectorRows = <<>>
  /\ sectorRows' = SeedSectorsFrom(SelectAllPrecincts(zones), 1, sectorRows)
  /\ sectorRows' # sectorRows
  /\ ResetCalls
  /\ UNCHANGED <<lifeVars, data_versions, now, upgradeCheck, syncVars, zones>>

\* DELETE FROM sectors.
CallDeleteSectors ==
  /\ sectorRows # <<>>
  /\ sectorRows' = <<>>
  /\ ResetCalls
  /\ UNCHANGED <<lifeVars, data_versions, now, upgradeCheck, syncVars, zones>>

\* handleMapPress: findPrecinctAtLocation(point), then
\* findSectorAtLocation(point), on the same point.
CallHandleMapPress ==
  /\ \E lat \in Coords, lng \in Coords :
       LET point == [latitude |-> lat, longitude |-> lng]
       IN press' = [done |-> TRUE, lat |-> lat, lng |-> lng,
                    precinct |-> findPrecinctAtLocation(zones, point),
                    sector |-> findSectorAtLocation(sectorRows, point)]
  /\ ClearCalls("press")
  /\ UNCHANGED <<lifeVars, data_versions, now, upgradeCheck, syncVars, zones, sectorRows>>

NextGeo ==
  \/ CallSeedSectorData
  \/ CallDeleteSectors
  \/ CallHandleMapPress
  \/ CallFindNearestPrecinct
  \/ CallInsertPrecinct
  \/ CallDeletePrecincts
  \/ CallFindPrecinctAtLocation

SpecGeo == InitGeo /\ [][NextGeo]_vars
\* ----------------------------------------- SpecMalformed: rows out of shape

\* Rows the table can hold beside the loaders' ones: insertPrecinct and
\* insertSector store whatever text they are given.  boundaryJson that is
\* not JSON, a geometry without coordinates or with none, and a
\* boundingBoxJson that is not an array of four.
UnparseableJson == [type |-> "unparseable"]
PolygonNoCoordinates == [type |-> "Polygon"]
MultiPolygonNoCoordinates == [type |-> "MultiPolygon"]
PolygonEmptyCoordinates == [type |-> "Polygon", coordinates |-> <<>>]
SquarePolygon == [type |-> "Polygon", coordinates |-> <<SquareRing>>]
ShortBox == <<0, 0, 3>>
MalformedBoundaries ==
  {UnparseableJson, PolygonNoCoordinates, MultiPolygonNoCoordinates,
   PolygonEmptyCoordinates}

\* Malformed rows of zone 2, which the scan meets between zones 1 and 3.
MalformedPrecincts ==
  {[precinctNum |-> 2, boundaryJson |-> b, centroidLat |-> 1, centroidLng |-> 1,
    boundingBoxJson |-> Extent(SquareRing)] : b \in MalformedBoundaries}
  \cup {[precinctNum |-> 2, boundaryJson |-> SquarePolygon,
         centroidLat |-> 1, centroidLng |-> 1, boundingBoxJson |-> ShortBox]}

\* Malformed rows of sector 1A.
MalformedSectors ==
  {[sectorId |-> <<1, "A">>, precinctNum |-> 1, boundaryJson |-> b,
    boundingBoxJson |-> Extent(SquareRing)] : b \in MalformedBoundaries}
  \cup {[sectorId |-> <<1, "A">>, precinctNum |-> 1, boundaryJson |-> SquarePolygon,
         boundingBoxJson |-> ShortBox]}

\* insertPrecinct of a malformed row.
CallInsertMalformedPrecinct ==
  /\ sectorRows = <<>>
  /\ \E p \in MalformedPrecincts :
       zones' = {z \in zones : z.precinctNum # p.precinctNum} \cup {p}
  /\ ResetCalls
  /\ UNCHANGED <<lifeVars, data_versions, now, upgradeCheck, syncVars, sectorRows>>

\* insertSector of a malformed row.
CallInsertMalformedSector ==
  /\ \E s \in MalformedSectors : sectorRows' = insertSector(sectorRows, s)
  /\ ResetCalls
  /\ UNCHANGED <<lifeVars, data_versions, now, upgradeCheck, syncVars, zones>>

NextMalformed ==
  \/ CallInsertPrecinct
  \/ CallInsertMalformedPrecinct
  \/ CallSeedSectorData
  \/ CallInsertMalformedSector
  \/ CallDeleteSectors
  \/ CallHandleMapPress

SpecMalformed == InitGeo /\ [][NextMalformed]_vars

\* --------------------------------------------- SpecSearch: the search screen

MAX_RECENT_SEARCHES == 10

\* The searches the model records before the list is cleared.
MaxSearches == 1

\* The addresses typed into the search box: address a is one that a geocoder
\* which finds it places at latitude a, longitude a.
Addresses == Coords

\* addRecentSearch: INSERT, then DELETE what is not among the newest
\* MAX_RECENT_SEARCHES rows.
addRecentSearch(table, search) ==
  SubSeq(<<search>> \o table, 1,
         IF Len(table) + 1 > MAX_RECENT_SEARCHES THEN MAX_RECENT_SEARCHES ELSE Len(table) + 1)

\* getRecentSearches: the newest MAX_RECENT_SEARCHES rows, newest first.
getRecentSearches(table) ==
  SubSeq(table, 1, IF Len(table) > MAX_RECENT_SEARCHES THEN MAX_RECENT_SEARCHES ELSE Len(table))

\* Only the polygon match is tried (not the code).
ResolveForSearchPolygonOnly(rows, point) == findPrecinctAtLocation(rows, point)

\* handleAddressSearch: findPrecinctAtLocation(point), and when it is null
\* findNearestPrecinct(point) of precinctRepository.ts.
ResolveForSearch(rows, point) ==
  IF findPrecinctAtLocation(rows, point) # 0
  THEN findPrecinctAtLocation(rows, point)
  ELSE findNearestPrecinct(rows, point, "repository")

\* The tab screens are mounted when the initial load has completed: the
\* tables of SpecSearch are filled before the first search.
ScreenUntouched ==
  /\ selectedPrecinct = 0
  /\ recentRows = <<>>
  /\ recentSearches = <<>>
  /\ addressSearch = NoSearch
LoadInsertPrecinct == ScreenUntouched /\ CallInsertPrecinct
LoadSeedSectorData == ScreenUntouched /\ CallSeedSectorData

\* handleAddressSearch for the address a.  `geocoded` is whether one of the
\* two geocoders found it; `fails` is whether addRecentSearch throws (the
\* outer catch shows the error alert).
CallHandleAddressSearch ==
  /\ \E a \in Addresses, geocoded \in BOOLEAN, fails \in BOOLEAN :
       LET point == [latitude |-> a, longitude |-> a]
           precinct == ResolveForSearch(zones, point)
           sector == findSectorAtLocation(sectorRows, point)
           search == [kind |-> "address", key |-> a]
           Ends(outcome) ==
             addressSearch' = [done |-> TRUE, address |-> a,
                               geocoded |-> geocoded, outcome |-> outcome]
       IN IF ~geocoded
          THEN Ends("notFound") /\ UNCHANGED uiVars
          ELSE IF precinct = 0
          THEN Ends("unresolved") /\ UNCHANGED uiVars
          ELSE IF fails
          THEN Ends("error") /\ UNCHANGED uiVars
          ELSE /\ Len(recentRows) < MaxSearches
               /\ Ends("resolved")
               /\ recentRows' = addRecentSearch(recentRows, search)
               /\ recentSearches' = getRecentSearches(recentRows')
               /\ selectedPrecinct' = precinct
               /\ selectedSector' = sector
               /\ searchedAddress' = <<a>>
               /\ searchedLocation' = <<a, a>>
  /\ ClearCalls("search")
  /\ UNCHANGED <<lifeVars, data_versions, now, upgradeCheck, syncVars, zones, sectorRows>>

\* handleClear: clearRecentSearches, setRecentSearches([]).
CallHandleClear ==
  /\ recentRows # <<>>
  /\ recentRows' = <<>>
  /\ recentSearches' = <<>>
  /\ addressSearch' = NoSearch
  /\ UNCHANGED <<selectedPrecinct, selectedSector, searchedAddress, searchedLocation>>
  /\ ClearCalls("search")
  /\ UNCHANGED <<lifeVars, data_versions, now, upgradeCheck, syncVars, zones, sectorRows>>

NextSearch ==
  \/ LoadInsertPrecinct
  \/ LoadSeedSectorData
  \/ CallHandleAddressSearch
  \/ CallHandleClear

SpecSearch == InitGeo /\ [][NextSearch]_vars

\* ------------------------------------------ SpecPolygon: isPointInPolygon

\* The polygons of a MultiPolygon the model builds.
MaxPolygons == 2

\* A ring inside the square, the hole of a polygon of two rings.
HoleRing == <<<<1, 1>>, <<2, 1>>, <<2, 2>>, <<1, 2>>, <<1, 1>>>>

\* The coordinates of one polygon: its rings, the exterior one first; a
\* polygon of no ring; a polygon with a hole.
PolygonCoordinates ==
  {<<SquareRing>>, <<DiamondRing>>, <<NotchRing>>, <<SquareRing, HoleRing>>, <<>>}

\* The geometries isPointInPolygon is called with: Polygons, MultiPolygons of
\* zero to MaxPolygons polygons, and geometries of other types.
Geometries ==
  {[type |-> "Polygon", coordinates |-> c] : c \in PolygonCoordinates}
  \cup {[type |-> "MultiPolygon", coordinates |-> cs] :
          cs \in UNION {[1..n -> PolygonCoordinates] : n \in 0..MaxPolygons}}
  \cup {[type |-> t, coordinates |-> <<SquareRing>>] : t \in {"Point", "none"}}

\* The call to make: a point of the grid and a geometry.
InitPolygon ==
  /\ LifeIdle
  /\ data_versions = {}
  /\ now = 0
  /\ upgradeCheck = NoCheck
  /\ SyncIdle
  /\ TablesIdle
  /\ polygonCall \in [done : {FALSE}, lat : Coords, lng : Coords,
                      geometry : Geometries, result : {FALSE}]
  /\ monthCall = NoMonthCall
  /\ ExtraIdle

\* isPointInPolygon(point, geometry).
CallIsPointInPolygon ==
  /\ ~polygonCall.done
  /\ polygonCall' =
       [polygonCall EXCEPT
          !.done = TRUE,
          !.result = isPointInPolygon([latitude |-> polygonCall.lat,
                                       longitude |-> polygonCall.lng],
                                      polygonCall.geometry)]
  /\ UNCHANGED <<lifeVars, data_versions, now, upgradeCheck, syncVars, zones,
                 sectorRows, query, polyTests, altResult, nearest, press, uiVars,
                 addressSearch, monthCall, extraVars>>

NextPolygon == CallIsPointInPolygon

SpecPolygon == InitPolygon /\ [][NextPolygon]_vars

\* --------------------------------------- SpecCalendar: computeMonthSchedule

\* A date is <<year, month, day>> with the month 0-indexed, as the Date
\* constructor takes it.  The years the model asks a month of.
Years == 2024..2026

IsLeapYear(year) == year % 4 = 0 /\ (year % 100 # 0 \/ year % 400 = 0)

\* February has 28 days in every year (not the code).
DaysInMonthNoLeap(year, month) ==
  IF month = 1 THEN 28
  ELSE IF month \in {3, 5, 8, 10} THEN 30
  ELSE 31

\* new Date(year, month + 1, 0).getDate().
DaysInMonth(year, month) ==
  IF month = 1 THEN (IF IsLeapYear(year) THEN 29 ELSE 28)
  ELSE IF month \in {3, 5, 8, 10} THEN 30
  ELSE 31

RECURSIVE DaysBeforeMonth(_, _)
DaysBeforeMonth(year, month) ==
  IF month = 0 THEN 0
  ELSE DaysBeforeMonth(year, month - 1) + DaysInMonth(year, month - 1)

RECURSIVE DaysBeforeYear(_)
DaysBeforeYear(year) ==
  IF year = 2024 THEN 0
  ELSE DaysBeforeYear(year - 1) + (IF IsLeapYear(year - 1) THEN 366 ELSE 365)

\* The calendar day of a date, counted from 2024-01-01.
DayNumber(date) ==
  DaysBeforeYear(date[1]) + DaysBeforeMonth(date[1], date[2]) + date[3] - 1

\* The host's time zone.  Daylight saving time is in force at local midnight
\* from the day after the clocks change: America/New_York 2024-03-11 to
\* 2024-11-03, 2025-03-10 to 2025-11-02 and 2026-03-09 to 2026-11-01;
\* Australia/Sydney until 2024-04-07, 2024-10-07 to 2025-04-06, 2025-10-06
\* to 2026-04-05, and from 2026-10-05.
TimeZones == {"UTC", "America/New_York", "Australia/Sydney"}
Between(n, from, to) == DayNumber(from) <= n /\ n <= DayNumber(to)
IsDaylightSaving(zone, n) ==
  IF zone = "America/New_York"
  THEN \/ Between(n, <<2024, 2, 11>>, <<2024, 10, 3>>)
       \/ Between(n, <<2025, 2, 10>>, <<2025, 10, 2>>)
       \/ Between(n, <<2026, 2, 9>>, <<2026, 10, 1>>)
  ELSE IF zone = "Australia/Sydney"
  THEN \/ n <= DayNumber(<<2024, 3, 7>>)
       \/ Between(n, <<2024, 9, 7>>, <<2025, 3, 6>>)
       \/ Between(n, <<2025, 9, 6>>, <<2026, 3, 5>>)
       \/ n >= DayNumber(<<2026, 9, 5>>)
  ELSE FALSE

\* Hours east of UTC at local midnight of day n.
UtcOffset(zone, n) ==
  (IF zone = "America/New_York" THEN 0 - 5
   ELSE IF zone = "Australia/Sydney" THEN 10
   ELSE 0)
  + (IF IsDaylightSaving(zone, n) THEN 1 ELSE 0)

\* getTime() of the local midnight of a date, in hours: new Date(year, month,
\* day) and new Date(anchorDate + 'T00:00:00') are both local midnights.
LocalMidnight(zone, date) == 24 * DayNumber(date) - UtcOffset(zone, DayNumber(date))

\* Math.floor(diffMs / (1000 * 60 * 60 * 24)), the times in hours.
DiffDays(zone, targetDate, anchorDate) ==
  (LocalMidnight(zone, targetDate) - LocalMidnight(zone, anchorDate)) \div 24

\* The % of JavaScript: the remainder has the sign of the dividend.
JsRemainder(a, n) == IF a >= 0 THEN a % n ELSE 0 - ((0 - a) % n)

\* patternArray[i] === 'O' for a 0-based i; an index outside the array reads
\* undefined.
IsOffAt(patternArray, i) ==
  /\ i >= 0
  /\ i < Len(patternArray)
  /\ patternArray[i + 1] = "O"

\* Date.getDay() of a date: 0 is Sunday; 2024-01-01 is a Monday.
GetDay(date) == (DayNumber(date) + 1) % 7

\* The steady branch moves the day of week by squadOffset (not the code).
DayIsOffSteadyShifted(zone, schedule, targetDate) ==
  IF schedule.patternType = "rotating"
  THEN LET rem == JsRemainder(DiffDays(zone, targetDate, schedule.anchorDate)
                                + schedule.squadOffset, schedule.cycleLength)
           dayIndex == IF rem < 0 THEN rem + schedule.cycleLength ELSE rem
       IN IsOffAt(schedule.patternArray, dayIndex)
  ELSE IsOffAt(schedule.patternArray,
               (GetDay(targetDate) + schedule.squadOffset) % 7)

\* The body of the loop of computeMonthSchedule for one day.
DayIsOff(zone, schedule, targetDate) ==
  IF schedule.patternType = "rotating"
  THEN LET rem == JsRemainder(DiffDays(zone, targetDate, schedule.anchorDate)
                                + schedule.squadOffset, schedule.cycleLength)
           dayIndex == IF rem < 0 THEN rem + schedule.cycleLength ELSE rem
       IN IsOffAt(schedule.patternArray, dayIndex)
  ELSE IsOffAt(schedule.patternArray, GetDay(targetDate))

\* computeMonthSchedule(year, month, schedule) on a host in `zone`.
computeMonthSchedule(zone, year, month, schedule) ==
  [day \in 1..DaysInMonth(year, month) |->
     DayIsOff(zone, schedule, <<year, month, day>>)]

\* The schedules the function is called with: those of the seed (five
\* rotating squads with offsets 0, 3, 6, 9, 12 and the steady squad), and
\* rotating schedules with a negative offset or anchored on 2026-07-01, and
\* steady schedules with another anchor, offset, cycleLength or pattern: the
\* function takes whatever the row holds.
RotatingPattern ==
  <<"W", "W", "W", "W", "W", "O", "O", "W", "W", "W", "W", "W", "O", "O", "O">>
SteadyPattern == <<"O", "W", "W", "W", "W", "W", "O">>
MidweekPattern == <<"W", "W", "O", "O", "W", "W", "W">>
SeedAnchor == <<2026, 0, 1>>
SquadOffsets == {3 * i : i \in 0..4} \cup {0 - 4}
Schedules ==
  {[patternType |-> "rotating", cycleLength |-> 15, patternArray |-> RotatingPattern,
    anchorDate |-> a, squadOffset |-> o] :
     a \in {SeedAnchor, <<2026, 6, 1>>}, o \in SquadOffsets}
  \cup {[patternType |-> "steady", cycleLength |-> c, patternArray |-> p,
         anchorDate |-> a, squadOffset |-> o] :
          c \in {7, 15}, p \in {SteadyPattern, MidweekPattern},
          a \in {SeedAnchor, <<2026, 6, 1>>}, o \in SquadOffsets}

\* The call to make: a month, a schedule, and the zone of the host.
InitCalendar ==
  /\ LifeIdle
  /\ data_versions = {}
  /\ now = 0
  /\ upgradeCheck = NoCheck
  /\ SyncIdle
  /\ TablesIdle
  /\ polygonCall = NoPolygonCall
  /\ monthCall \in [done : {FALSE}, zone : TimeZones, year : Years,
                    month : 0..11, schedule : Schedules]
  /\ ExtraIdle

\* computeMonthSchedule(year, month, schedule); diffDays is the loop's
\* variable of that name at each day.
CallComputeMonthSchedule ==
  /\ monthCall # NoMonthCall
  /\ ~monthCall.done
  /\ monthCall' =
       [done |-> TRUE, zone |-> monthCall.zone, year |-> monthCall.year,
        month |-> monthCall.month, schedule |-> monthCall.schedule,
        diffDays |-> [day \in 1..DaysInMonth(monthCall.year, monthCall.month) |->
                        DiffDays(monthCall.zone,
                                 <<monthCall.year, monthCall.month, day>>,
                                 monthCall.schedule.anchorDate)],
        result |-> computeMonthSchedule(monthCall.zone, monthCall.year,
                                        monthCall.month, monthCall.schedule)]
  /\ UNCHANGED <<lifeVars, data_versions, now, upgradeCheck, syncVars, zones,
                 sectorRows, query, polyTests, altResult, nearest, press, uiVars,
                 addressSearch, polygonCall, extraVars>>

NextCalendar == CallComputeMonthSchedule

SpecCalendar == InitCalendar /\ [][NextCalendar]_vars

\* ------------------------------------- SpecSchedules: table rdo_schedules

\* The squads whose schedule the model stores.
NumSquads == 1

\* Schedules whose patternArray has not the length the row declares: a
\* rotating one with a 7-entry pattern for cycleLength 15, one with a
\* 15-entry pattern for cycleLength 7, and a steady one with 15 entries.
MisconfiguredSchedules ==
  {[patternType |-> "rotating", cycleLength |-> 15, patternArray |-> SteadyPattern,
    anchorDate |-> SeedAnchor, squadOffset |-> 0],
   [patternType |-> "rotating", cycleLength |-> 7, patternArray |-> RotatingPattern,
    anchorDate |-> SeedAnchor, squadOffset |-> 0],
   [patternType |-> "steady", cycleLength |-> 7, patternArray |-> RotatingPattern,
    anchorDate |-> SeedAnchor, squadOffset |-> 0]}

\* The schedules of the seed for squad 1 and for the steady squad.
SeedSchedules ==
  {[patternType |-> "rotating", cycleLength |-> 15, patternArray |-> RotatingPattern,
    anchorDate |-> SeedAnchor, squadOffset |-> 0],
   [patternType |-> "steady", cycleLength |-> 7, patternArray |-> SteadyPattern,
    anchorDate |-> SeedAnchor, squadOffset |-> 0]}

\* insertRdoSchedule: INSERT OR REPLACE, squadId being UNIQUE; the values are
\* bound as they are.  The table is a sequence indexed by squadId, <<>> for
\* no row.
insertRdoSchedule(table, squadId, schedule) ==
  [k \in 1..(IF squadId > Len(table) THEN squadId ELSE Len(table)) |->
     IF k = squadId THEN <<schedule>>
     ELSE IF k <= Len(table) THEN table[k]
     ELSE <<>>]

\* getScheduleForSquad: null (<<>>) without a row, else the row with its
\* patternArray parsed.
getScheduleForSquad(table, squadId) ==
  IF squadId > Len(table) THEN <<>> ELSE table[squadId]

CallInsertRdoSchedule ==
  /\ \E squadId \in 1..NumSquads, schedule \in SeedSchedules \cup MisconfiguredSchedules :
       rdoSchedules' = insertRdoSchedule(rdoSchedules, squadId, schedule)
  /\ monthCall' = NoMonthCall
  /\ UNCHANGED <<lifeVars, data_versions, now, upgradeCheck, syncVars, zones,
                 sectorRows, query, polyTests, altResult, nearest, press, uiVars,
                 addressSearch, polygonCall, sectorCall, dbVars, recentVars>>

\* The schedule a screen loads for a squad, and the month it then asks for.
CallGetScheduleForSquad ==
  /\ \E squadId \in 1..NumSquads, zone \in TimeZones, year \in Years, month \in 0..11 :
       /\ getScheduleForSquad(rdoSchedules, squadId) # <<>>
       /\ monthCall' = [done |-> FALSE, zone |-> zone, year |-> year, month |-> month,
                        schedule |-> getScheduleForSquad(rdoSchedules, squadId)[1]]
  /\ UNCHANGED <<lifeVars, data_versions, now, upgradeCheck, syncVars, zones,
                 sectorRows, query, polyTests, altResult, nearest, press, uiVars,
                 addressSearch, polygonCall, extraVars>>

NextSchedules ==
  \/ CallInsertRdoSchedule
  \/ CallGetScheduleForSquad
  \/ CallComputeMonthSchedule

SpecSchedules == InitGeo /\ [][NextSchedules]_vars

\* ---------------------------------- SpecSectorRings: the rings of the halves

\* The largest number of distinct vertices of a parent ring.
MaxRingVertices == 4

\* The points the vertices of a parent ring are taken from, <<lng, lat>>.
RingPoints == {<<0, 0>>, <<4, 0>>, <<4, 4>>, <<0, 4>>, <<2, 6>>}

\* Closed rings: n distinct vertices, n >= 3, and the first one again.
ParentRings ==
  UNION {{s \o <<s[1]>> : s \in {q \in [1..n -> RingPoints] :
                                   \A i, j \in 1..n : i # j => q[i] # q[j]}} :
         n \in 3..MaxRingVertices}

\* One turn of the loop of seedSectorData, on a row whose boundaryJson is a
\* Polygon of one closed ring.
CallSectorsOfPrecinct ==
  /\ sectorCall = NoSectorCall
  /\ \E coords \in ParentRings :
       sectorCall' =
         [done |-> TRUE, coords |-> coords,
          sectors |-> SectorsOfPrecinct(
                        [precinctNum |-> 1,
                         boundaryJson |-> [type |-> "Polygon",
                                           coordinates |-> <<coords>>]])]
  /\ UNCHANGED <<lifeVars, data_versions, now, upgradeCheck, syncVars, zones,
                 sectorRows, query, polyTests, altResult, nearest, press, uiVars,
                 addressSearch, polygonCall, monthCall, rdoSchedules, dbVars,
                 recentVars>>

NextSectorRings == CallSectorsOfPrecinct

SpecSectorRings == InitGeo /\ [][NextSectorRings]_vars

\* ------------------------------------------- SpecDb: the database handle

\* What the actions on the handle leave alone.
DbFrame ==
  UNCHANGED <<lifeVars, data_versions, now, upgradeCheck, syncVars, zones,
              sectorRows, query, polyTests, altResult, nearest, press, uiVars,
              addressSearch, polygonCall, monthCall, rdoSchedules, sectorCall,
              recentVars>>

\* The operations AppProvider's mount effect awaits one after the other, and
\* those of performInitialDataLoad on its reset branch up to the first insert
\* of seedSquadsAndSchedules.
DbOps(t) ==
  IF t = "provider"
  THEN <<"isInitialLoadComplete", "getLawStats", "getAllPreferences">>
  ELSE <<"isInitialLoadComplete", "getLawStats", "resetDatabase", "insertSquad">>

\* The statements an operation awaits on the handle it obtained.
Statements(op) == IF op = "getLawStats" THEN 2 ELSE 1

\* The operation task t is in, "none" before the first and after the last.
DbOp(t) ==
  IF dbTask[t].op \in 1..Len(DbOps(t)) THEN DbOps(t)[dbTask[t].op] ELSE "none"

\* Every call starts a run of initDatabase (not the code): no promise is kept.
getDatabaseUncached(promise, inits) == Len(inits) + 1

\* getDatabase: the promise it returns, a new one (the next run of
\* initDatabase) when dbPromise is null.
getDatabase(promise, inits) == IF promise = 0 THEN Len(inits) + 1 ELSE promise

\* The application mounts: AppProvider's effect and OnboardingScreen's
\* startLoad are started.
DbMount ==
  /\ \A t \in DbTasks : dbTask[t].step = "idle"
  /\ dbTask' = [t \in DbTasks |-> [op |-> 1, step |-> "call", held |-> 0, left |-> 0]]
  /\ UNCHANGED <<dbPromise, dbInits, closedUse>>
  /\ DbFrame

\* A repository operation begins: const db = await getDatabase(), up to the
\* await.
DbGetDatabase(t) ==
  /\ dbTask[t].step = "call"
  /\ DbOp(t) \notin {"none", "resetDatabase"}
  /\ LET p == getDatabase(dbPromise, dbInits)
     IN /\ dbPromise' = p
        /\ dbInits' = IF p > Len(dbInits) THEN Append(dbInits, "pending") ELSE dbInits
        /\ dbTask' = [dbTask EXCEPT ![t].step = "await", ![t].held = p,
                                    ![t].left = Statements(DbOp(t))]
  /\ UNCHANGED closedUse
  /\ DbFrame

\* initDatabase settles: the handle is open, or openDatabaseAsync or the
\* PRAGMA threw and the promise is rejected.
DbInitDatabase ==
  /\ \E i \in DOMAIN dbInits :
       /\ dbInits[i] = "pending"
       /\ \E outcome \in {"open", "rejected"} :
            dbInits' = [dbInits EXCEPT ![i] = outcome]
  /\ UNCHANGED <<dbPromise, dbTask, closedUse>>
  /\ DbFrame

\* Where task t goes after the operation it is in: AppProvider skips
\* getLawStats when isInitialLoadComplete answered false.
DbAfterOp(t, loaded) ==
  LET next == IF t = "provider" /\ DbOp(t) = "isInitialLoadComplete" /\ ~loaded
              THEN dbTask[t].op + 2 ELSE dbTask[t].op + 1
  IN [op |-> next, step |-> IF next > Len(DbOps(t)) THEN "done" ELSE "call",
      held |-> 0, left |-> 0]

\* The task resumes and awaits the next statement on the handle it holds.  A
\* rejected promise or a closed handle throws: AppProvider's effect catches,
\* performInitialDataLoad rejects.  isInitialLoadComplete answers true on the
\* first handle; on a later one the answer depends on whether the file was
\* deleted.
DbRunStatement(t) ==
  /\ dbTask[t].step \in {"await", "stmt"}
  /\ DbOp(t) \notin {"none", "resetDatabase"}
  /\ dbInits[dbTask[t].held] # "pending"
  /\ IF dbInits[dbTask[t].held] = "open"
     THEN /\ closedUse' = closedUse
          /\ IF dbTask[t].left > 1
             THEN dbTask' = [dbTask EXCEPT ![t].step = "stmt", ![t].left = @ - 1]
             ELSE \E loaded \in IF dbTask[t].held = 1 THEN {TRUE} ELSE BOOLEAN :
                    dbTask' = [dbTask EXCEPT ![t] = DbAfterOp(t, loaded)]
     ELSE /\ closedUse' = IF dbInits[dbTask[t].held] = "closed"
                          THEN closedUse \cup {<<t, DbOp(t)>>} ELSE closedUse
          /\ dbTask' = [dbTask EXCEPT ![t].step = "failed"]
  /\ UNCHANGED <<dbPromise, dbInits>>
  /\ DbFrame

\* resetDatabase: if (dbPromise) ... const db = await dbPromise.
DbResetAwait ==
  /\ dbTask["load"].step = "call"
  /\ DbOp("load") = "resetDatabase"
  /\ dbTask' = [dbTask EXCEPT !["load"].step = IF dbPromise = 0 THEN "closing" ELSE "await",
                              !["load"].held = dbPromise]
  /\ UNCHANGED <<dbPromise, dbInits, closedUse>>
  /\ DbFrame

\* resetDatabase: await db.closeAsync(); a rejected promise is caught.
DbResetClose ==
  /\ dbTask["load"].step = "await"
  /\ DbOp("load") = "resetDatabase"
  /\ dbInits[dbTask["load"].held] # "pending"
  /\ dbInits' = [dbInits EXCEPT ![dbTask["load"].held] =
                   IF @ = "open" THEN "closed" ELSE @]
  /\ dbTask' = [dbTask EXCEPT !["load"].step = "closing"]
  /\ UNCHANGED <<dbPromise, closedUse>>
  /\ DbFrame

\* resetDatabase: dbPromise = null, then deleteDatabaseAsync, whose failure
\* is logged.
DbResetDelete ==
  /\ dbTask["load"].step = "closing"
  /\ DbOp("load") = "resetDatabase"
  /\ dbPromise' = 0
  /\ dbTask' = [dbTask EXCEPT !["load"] = DbAfterOp("load", TRUE)]
  /\ UNCHANGED <<dbInits, closedUse>>
  /\ DbFrame

NextDb ==
  \/ DbMount
  \/ \E t \in DbTasks : DbGetDatabase(t)
  \/ DbInitDatabase
  \/ \E t \in DbTasks : DbRunStatement(t)
  \/ DbResetAwait
  \/ DbResetClose
  \/ DbResetDelete

SpecDb == InitGeo /\ [][NextDb]_vars

\* -------------------------------------- SpecRecent: table recent_searches

\* The values of search.timestamp: an earlier and a later reading of the
\* clock, so that a row may be older than, as old as or newer than the rows
\* stored.
Timestamps == {1, 2}

\* The rows at the indices K of the table, in searchId order.
RECURSIVE RowsAt(_, _, _)
RowsAt(table, K, i) ==
  IF i > Len(table) THEN <<>>
  ELSE (IF i \in K THEN <<table[i]>> ELSE <<>>) \o RowsAt(table, K, i + 1)

\* The rows with the greatest searchId are kept (not the code).
PruneBySearchId(table) ==
  IF Len(table) <= MAX_RECENT_SEARCHES THEN {table}
  ELSE {SubSeq(table, Len(table) - MAX_RECENT_SEARCHES + 1, Len(table))}

\* DELETE FROM recent_searches WHERE searchId NOT IN (SELECT searchId ...
\* ORDER BY timestamp DESC LIMIT 10): the tables it may leave.  Which of the
\* rows of equal timestamp the LIMIT cuts off is not determined.
Prune(table) ==
  IF Len(table) <= MAX_RECENT_SEARCHES THEN {table}
  ELSE {RowsAt(table, K, 1) :
          K \in {S \in SUBSET (1..Len(table)) :
                   /\ Cardinality(S) = MAX_RECENT_SEARCHES
                   /\ \A i \in S, j \in (1..Len(table)) \ S : table[i] >= table[j]}}

\* SELECT * FROM recent_searches ORDER BY timestamp DESC.
RECURSIVE OrderByTimestampDesc(_)
OrderByTimestampDesc(table) ==
  IF table = <<>> THEN <<>>
  ELSE LET i == CHOOSE k \in 1..Len(table) : \A j \in 1..Len(table) : table[k] >= table[j]
       IN <<table[i]>> \o OrderByTimestampDesc(RowsAt(table, (1..Len(table)) \ {i}, 1))

\* What the other actions leave alone.
RecentFrame ==
  UNCHANGED <<lifeVars, data_versions, now, upgradeCheck, syncVars, zones,
              sectorRows, query, polyTests, altResult, nearest, press, uiVars,
              addressSearch, polygonCall, monthCall, rdoSchedules, sectorCall,
              dbVars>>

\* addRecentSearch(search): the INSERT, then the prune.
CallAddRecentSearch ==
  /\ \E timestamp \in Timestamps :
       \E pruned \in Prune(Append(recent_searches, timestamp)) :
         /\ recent_searches' = pruned
         /\ searchCall' = [op |-> "add", before |-> recent_searches,
                           timestamp |-> timestamp]
  /\ RecentFrame

\* clearRecentSearches().
CallClearRecentSearches ==
  /\ recent_searches' = <<>>
  /\ searchCall' = [op |-> "clear", before |-> recent_searches]
  /\ RecentFrame

\* getRecentSearches(): ... ORDER BY timestamp DESC LIMIT 10.
CallGetRecentSearches ==
  /\ searchCall' =
       [op |-> "get", before |-> recent_searches,
        result |-> LET rows == OrderByTimestampDesc(recent_searches)
                   IN SubSeq(rows, 1, IF Len(rows) > MAX_RECENT_SEARCHES
                                      THEN MAX_RECENT_SEARCHES ELSE Len(rows))]
  /\ UNCHANGED recent_searches
  /\ RecentFrame

NextRecent ==
  \/ CallAddRecentSearch
  \/ CallClearRecentSearches
  \/ CallGetRecentSearches

SpecRecent == InitGeo /\ [][NextRecent]_vars


\* ==================================================================== claims

C2_ReseedAfterFailure ==
  /\ (upgradeCheck.done /\ upgradeCheck.key = "precincts" /\ upgradeCheck.dirtyThen)
       => upgradeCheck.needs
  /\ (/\ HasDataVersion(data_versions, "precincts")
      /\ VersionOf(data_versions, "precincts") = PRECINCT_VERSION(build))
       => ~dirty

\* C3: a startup upgrade that failed partway makes the promise of
\* performInitialDataLoad reject.
C3_FailedUpgradeRejects ==
  upFail.failed => loadResult = "rejected"

\* C4: no resolver call reads the zone tables between a DELETE and the end of
\* the repopulation that follows it, and isDataLoaded is true only when no
\* sequence is inside that window and no failed reseed has left the precincts
\* table emptied under the target version.
C4_ResolverSerialized ==
  /\ resolverRead # "mid_reseed"
  /\ isDataLoaded =>
       /\ \A t \in Tasks : ~InWindow(t)
       /\ ~(/\ dirty
            /\ HasDataVersion(data_versions, "precincts")
            /\ VersionOf(data_versions, "precincts") = PRECINCT_VERSION(build))

\* a is smaller than b in lexicographic order of code units: they agree up to
\* some position where a has ended or holds the smaller unit.
LexLess(a, b) ==
  \E i \in 1..Len(b) :
    /\ \A j \in 1..(i - 1) : j <= Len(a) /\ a[j] = b[j]
    /\ i <= Len(a) => a[i] < b[i]
    /\ i > Len(a) => i - 1 = Len(a)

\* C5: the upgrade test of a dataset (precincts or sectors) answers true when
\* no version is recorded for its key, false when the recorded version equals
\* the target, and true when the recorded version is strictly smaller than the
\* target in the order the comparison uses.
C5_UpgradeDecision ==
  upgradeCheck.done =>
    LET rows == {r \in data_versions : r.datasetKey = upgradeCheck.key}
    IN /\ rows = {} => upgradeCheck.needs
       /\ \A r \in rows : r.version = upgradeCheck.target => ~upgradeCheck.needs
       /\ \A r \in rows : LexLess(r.version, upgradeCheck.target) => upgradeCheck.needs

\* C5 witness: the sectors site has tested a missing row and asked for an
\* upgrade.
C5_Witness ==
  /\ upgradeCheck.done
  /\ upgradeCheck.key = "sectors"
  /\ \A r \in data_versions : r.datasetKey # "sectors"
  /\ \E r \in data_versions : r.datasetKey = "precincts"
  /\ upgradeCheck.needs

\* C6: a recorded version is compared with the target as a plain string, code
\* unit by code unit: the test of a recorded row is true exactly when the
\* recorded string is lexicographically smaller, so recorded "9.0.0" against
\* target "10.0.0", and recorded "2.0.0" against target "11.0.0", answer false
\* and trigger no reseed.
C6_LexicographicCompare ==
  (upgradeCheck.done /\ upgradeCheck.present) =>
    /\ upgradeCheck.needs <=> LexLess(upgradeCheck.recorded, upgradeCheck.target)
    /\ (upgradeCheck.recorded = V_9_0_0 /\ upgradeCheck.target = V_10_0_0)
         => ~upgradeCheck.needs
    /\ (upgradeCheck.recorded = V_2_0_0 /\ upgradeCheck.target = V_11_0_0)
         => ~upgradeCheck.needs

\* C6 witness: recorded "9.0.0" was tested against target "10.0.0" and no
\* upgrade was asked for.
C6_Witness ==
  /\ upgradeCheck.done
  /\ upgradeCheck.present
  /\ upgradeCheck.recorded = V_9_0_0
  /\ upgradeCheck.target = V_10_0_0
  /\ ~upgradeCheck.needs

\* C7: after any sequence of setDataVersion calls, every key that was ever set
\* has exactly one row, holding the version and the time of the last call for
\* that key (also when the call repeated the stored version), and a key never
\* set has none: a call leaves the rows of the other keys as they were.
C7_IdempotentUpsert ==
  \A key \in DatasetKey :
    LET rows == {r \in data_versions : r.datasetKey = key}
    IN IF lastSet[key].set
       THEN /\ Cardinality(rows) = 1
            /\ \A r \in rows : /\ r.version = lastSet[key].version
                               /\ r.lastSyncedAt = lastSet[key].at
       ELSE rows = {}

\* C7 witness: the last call for precincts repeated the stored version at a
\* later time, and another key holds a row from an earlier call.
C7_Witness ==
  /\ lastSet["precincts"].set
  /\ lastSet["precincts"].repeat
  /\ lastSet["precincts"].at = 2
  /\ lastSet["laws"].set
  /\ lastSet["laws"].at = 0

\* C8: isInitialLoadComplete answers true exactly when each of 'precincts',
\* 'sectors' and 'laws' has a recorded version, whatever the versions are.
C8_InitialLoadComplete ==
  loadComplete # "none" =>
    (loadComplete = "yes" <=>
       \A key \in {"precincts", "sectors", "laws"} :
         \E r \in data_versions : r.datasetKey = key)

\* C8 witness: two of the three keys are recorded and the answer is false.
C8_Witness ==
  /\ loadComplete = "no"
  /\ \E r \in data_versions : r.datasetKey = "precincts"
  /\ \E r \in data_versions : r.datasetKey = "laws"
  /\ \A r \in data_versions : r.datasetKey # "sectors"

\* The point p = <<lng, lat>> lies on the closed segment from a to b.
OnSegment(p, a, b) ==
  /\ (b[1] - a[1]) * (p[2] - a[2]) = (b[2] - a[2]) * (p[1] - a[1])
  /\ (a[1] <= p[1] /\ p[1] <= b[1]) \/ (b[1] <= p[1] /\ p[1] <= a[1])
  /\ (a[2] <= p[2] /\ p[2] <= b[2]) \/ (b[2] <= p[2] /\ p[2] <= a[2])
OnBoundary(p, ring) ==
  \E i \in 1..(Len(ring) - 1) : OnSegment(p, ring[i], ring[i + 1])

\* The winding number of the ring around p: the edges that pass p upwards
\* with p on their left, less those that pass it downwards with p on their
\* right.
WindingNumber(p, ring) ==
  LET Side(i) == (ring[i + 1][1] - ring[i][1]) * (p[2] - ring[i][2])
                 - (p[1] - ring[i][1]) * (ring[i + 1][2] - ring[i][2])
      up == {i \in 1..(Len(ring) - 1) :
               ring[i][2] <= p[2] /\ p[2] < ring[i + 1][2] /\ Side(i) > 0}
      down == {i \in 1..(Len(ring) - 1) :
                 ring[i + 1][2] <= p[2] /\ p[2] < ring[i][2] /\ Side(i) < 0}
  IN Cardinality(up) - Cardinality(down)
StrictlyInside(p, ring) == ~OnBoundary(p, ring) /\ WindingNumber(p, ring) # 0
Contains(p, ring) == OnBoundary(p, ring) \/ WindingNumber(p, ring) # 0
HasPolygon(z) == z.boundaryJson.type = "Polygon"
RingOf(z) == z.boundaryJson.coordinates[1]
QueryPoint == <<query.lng, query.lat>>

\* C9: when the point of a findPrecinctAtLocation call lies strictly inside
\* the polygon of a zone of the table, off its edges and vertices, and the
\* polygon of no other zone contains the point, the call returns that zone.
C9_StrictlyInsideResolves ==
  query.done =>
    \A z \in zones :
      (/\ HasPolygon(z)
       /\ StrictlyInside(QueryPoint, RingOf(z))
       /\ \A o \in zones \ {z} : HasPolygon(o) => ~Contains(QueryPoint, RingOf(o)))
        => query.result = z.precinctNum

\* A point strictly inside the concave zone, in the bounding box of the
\* diamond zone too, where both exact tests ran and the concave zone came back.
C9_Witness ==
  /\ query.done
  /\ polyTests >= 2
  /\ \E z \in zones :
       /\ HasPolygon(z)
       /\ RingOf(z) = NotchRing
       /\ StrictlyInside(QueryPoint, NotchRing)
       /\ query.result = z.precinctNum
  /\ \E o \in zones : HasPolygon(o) /\ RingOf(o) = DiamondRing
                      /\ ~Contains(QueryPoint, DiamondRing)

\* C10: when the point of a findPrecinctAtLocation call lies strictly outside
\* the bounding box of every zone, the call returns null and has made no
\* call of isPointInPolygon.
C10_OutsideEveryBBox ==
  (/\ query.done
   /\ \A z \in zones :
        Len(z.boundingBoxJson) = 4 =>
          \/ query.lat < z.boundingBoxJson[1]
          \/ query.lng < z.boundingBoxJson[2]
          \/ query.lat > z.boundingBoxJson[3]
          \/ query.lng > z.boundingBoxJson[4])
    => (query.result = 0 /\ polyTests = 0)

\* A point beside two zones with polygons: within the latitudes of a bounding
\* box, outside its longitudes.
C10_Witness ==
  /\ query.done
  /\ query.result = 0
  /\ polyTests = 0
  /\ Cardinality({z \in zones : HasPolygon(z)}) >= 2
  /\ \A z \in zones :
       HasPolygon(z) =>
         \/ query.lat < z.boundingBoxJson[1]
         \/ query.lng < z.boundingBoxJson[2]
         \/ query.lat > z.boundingBoxJson[3]
         \/ query.lng > z.boundingBoxJson[4]
  /\ \E z \in zones :
       /\ HasPolygon(z)
       /\ query.lat >= z.boundingBoxJson[1]
       /\ query.lat <= z.boundingBoxJson[3]

\* The squared distance from the point of the query to the centroid of z.
CentroidDistance(z) ==
  (query.lat - z.centroidLat) * (query.lat - z.centroidLat)
  + (query.lng - z.centroidLng) * (query.lng - z.centroidLng)

\* C11: when a findPrecinctAtLocation call returns a zone, the polygon of
\* that zone contains the point, and no zone whose polygon has the point
\* strictly inside has a centroid at a smaller squared distance from the
\* point than the returned zone.
C11_NearestCentroidAmongMatches ==
  (query.done /\ query.result # 0) =>
    \E r \in zones :
      /\ r.precinctNum = query.result
      /\ HasPolygon(r)
      /\ Contains(QueryPoint, RingOf(r))
      /\ \A z \in zones :
           (HasPolygon(z) /\ StrictlyInside(QueryPoint, RingOf(z)))
             => CentroidDistance(r) <= CentroidDistance(z)

\* Two zones have the point strictly inside, the one later in the scan has
\* the nearer centroid, and it is the one returned.
C11_Witness ==
  /\ query.done
  /\ polyTests >= 2
  /\ \E r \in zones, z \in zones :
       /\ r.precinctNum = query.result
       /\ z.precinctNum < r.precinctNum
       /\ HasPolygon(r) /\ StrictlyInside(QueryPoint, RingOf(r))
       /\ HasPolygon(z) /\ StrictlyInside(QueryPoint, RingOf(z))
       /\ CentroidDistance(r) < CentroidDistance(z)

\* C12: a findPrecinctAtLocation call on a fixed table and a fixed point
\* returns the same zone whatever the order in which the scan returns the
\* rows.
C12_ScanOrderIndependent ==
  query.done => altResult = query.result

\* The squared distance from the point of the findNearestPrecinct call to the
\* centroid of z.
NearestDistance(z) ==
  (nearest.lat - z.centroidLat) * (nearest.lat - z.centroidLat)
  + (nearest.lng - z.centroidLng) * (nearest.lng - z.centroidLng)

\* C13: findNearestPrecinct returns null when no zone of the table has its
\* centroid within the threshold of the point (when the table is empty too);
\* otherwise it returns a zone within the threshold that no zone is nearer
\* than.
C13_NearestWithinThreshold ==
  nearest.done =>
    IF \A z \in zones : NearestDistance(z) > NearestThreshold(nearest.variant)
    THEN nearest.result = 0
    ELSE \E r \in zones :
           /\ r.precinctNum = nearest.result
           /\ NearestDistance(r) <= NearestThreshold(nearest.variant)
           /\ \A z \in zones : NearestDistance(r) <= NearestDistance(z)

\* A call that returns a zone which is not the first of the scan, on a table
\* that holds a zone beyond the threshold as well.
C13_Witness ==
  /\ nearest.done
  /\ nearest.result # 0
  /\ \E z \in zones : z.precinctNum < nearest.result
  /\ \E z \in zones : NearestDistance(z) > NearestThreshold(nearest.variant)

\* C18: when a map press resolves its point to a precinct and to a sector,
\* the sector is one of that precinct.
C18_SectorOfResolvedPrecinct ==
  (press.done /\ press.precinct # 0 /\ press.sector.precinctNum # 0)
    => press.sector.precinctNum = press.precinct

\* C14: a zone whose boundary JSON does not parse, whose geometry has no or
\* empty coordinates, or whose bounding box is not an array of four, never
\* makes findPrecinctAtLocation or findSectorAtLocation throw, and each call
\* returns what it returns on the table without the malformed zones.
C14_WellFormed(row) ==
  /\ ~JsonParseThrows(row.boundaryJson)
  /\ HasCoordinates(row.boundaryJson)
  /\ Len(row.boundaryJson.coordinates) > 0
  /\ Len(row.boundingBoxJson) = 4
C14_MalformedSkipped ==
  press.done =>
    LET point == [latitude |-> press.lat, longitude |-> press.lng]
    IN /\ press.precinct # 0 - 1
       /\ press.precinct =
            findPrecinctAtLocation({z \in zones : C14_WellFormed(z)}, point)
       /\ press.sector =
            findSectorAtLocation(SelectSeq(sectorRows, C14_WellFormed), point)

\* A press whose scan meets a zone throwing inside the try before a zone that
\* matches, and a sector throwing inside the try.
C14_Witness ==
  /\ press.done
  /\ press.precinct = 3
  /\ \E z \in zones :
       /\ z.precinctNum = 2
       /\ TryPolygonTest([latitude |-> press.lat, longitude |-> press.lng],
                         z.boundaryJson) = "throws"
       /\ isPointInBoundingBox([latitude |-> press.lat, longitude |-> press.lng],
                               parseBoundingBox(z.boundingBoxJson))
  /\ \E i \in DOMAIN sectorRows :
       TryPolygonTest([latitude |-> press.lat, longitude |-> press.lng],
                      sectorRows[i].boundaryJson) = "throws"

\* C15: an address search selects the polygon match when there is one, else
\* the nearest-centroid zone within the threshold, and ends unresolved when
\* there is neither; an unresolved search leaves the selected precinct and
\* sector, the searched address and location, the table of recent searches
\* and the list shown on the screen as they were.
C15_AddressSearchFlow ==
  [][addressSearch'.done =>
       LET point == [latitude |-> addressSearch'.address,
                     longitude |-> addressSearch'.address]
           match == findPrecinctAtLocation(zones, point)
           near == findNearestPrecinct(zones, point, "repository")
       IN /\ addressSearch'.outcome = "resolved" =>
               /\ match # 0 \/ near # 0
               /\ selectedPrecinct' = IF match # 0 THEN match ELSE near
          /\ (addressSearch'.geocoded /\ match = 0 /\ near = 0) =>
               addressSearch'.outcome = "unresolved"
          /\ addressSearch'.outcome = "unresolved" =>
               /\ match = 0 /\ near = 0
               /\ UNCHANGED <<selectedPrecinct, selectedSector, searchedAddress,
                              searchedLocation, recentRows, recentSearches>>]_vars

\* An unresolved search made after one that a nearest centroid resolved.
C15_Witness ==
  /\ addressSearch.done
  /\ addressSearch.outcome = "unresolved"
  /\ searchedAddress # <<>>
  /\ recentSearches # <<>>
  /\ findPrecinctAtLocation(zones, [latitude |-> searchedAddress[1],
                                    longitude |-> searchedAddress[1]]) = 0

\* C16: for a MultiPolygon isPointInPolygon is true exactly when the ray
\* casting test on the exterior ring of at least one of its polygons is
\* true; it is false for a MultiPolygon of no polygon and for a geometry
\* that is neither a Polygon nor a MultiPolygon.
C16_MultiPolygonIsOr ==
  polygonCall.done =>
    LET g == polygonCall.geometry
        Exterior(k) == g.coordinates[k][1]
    IN /\ g.type = "MultiPolygon" =>
            (polygonCall.result <=>
               \E k \in 1..Len(g.coordinates) :
                 /\ Len(g.coordinates[k]) > 0
                 /\ rayCasting(polygonCall.lat, polygonCall.lng, Exterior(k)))
       /\ (g.type = "MultiPolygon" /\ Len(g.coordinates) = 0) => ~polygonCall.result
       /\ g.type \notin {"Polygon", "MultiPolygon"} => ~polygonCall.result

\* A MultiPolygon of two polygons of which only the second has the point.
C16_Witness ==
  /\ polygonCall.done
  /\ polygonCall.geometry.type = "MultiPolygon"
  /\ Len(polygonCall.geometry.coordinates) = 2
  /\ polygonCall.geometry.coordinates[1] = <<SquareRing>>
  /\ polygonCall.geometry.coordinates[2] = <<DiamondRing>>
  /\ ~rayCasting(polygonCall.lat, polygonCall.lng, SquareRing)
  /\ polygonCall.result

\* C17: the box that computeBoundingBox and buildSector compute has every
\* vertex of every ring they were given, and the bounding-box filter rejects
\* no zone and no sector whose polygon has the point: each resolver returns
\* what its loop returns on the unfiltered rows.
C17_BoxHas(box, ring) ==
  \A i \in 1..Len(ring) :
    /\ box.minLat <= ring[i][2] /\ ring[i][2] <= box.maxLat
    /\ box.minLng <= ring[i][1] /\ ring[i][1] <= box.maxLng
C17_BoxIsSuperset ==
  /\ \A coordinates \in PolygonCoordinates :
       \A k \in 1..Len(coordinates) :
         C17_BoxHas(computeBoundingBox(coordinates), coordinates[k])
  /\ \A i \in DOMAIN sectorRows :
       C17_BoxHas(parseBoundingBox(sectorRows[i].boundingBoxJson),
                  sectorRows[i].boundaryJson.coordinates[1])
  /\ press.done =>
       LET point == [latitude |-> press.lat, longitude |-> press.lng]
       IN /\ press.precinct =
               BestMatchFrom(SelectAllPrecincts(zones), point, 1,
                             [match |-> 0, dist |-> 0]).match
          /\ press.sector = FirstSectorFrom(sectorRows, point, 1)

\* A press that resolved a precinct and a sector while the filter rejected
\* another sector of the table.
C17_Witness ==
  /\ press.done
  /\ press.precinct # 0
  /\ press.sector # NoSector
  /\ \E i \in DOMAIN sectorRows :
       ~isPointInBoundingBox([latitude |-> press.lat, longitude |-> press.lng],
                             parseBoundingBox(sectorRows[i].boundingBoxJson))

\* C19: for a rotating schedule and every date, the day is off exactly when
\* patternArray[i] is 'O' for i = (daysSinceAnchor + squadOffset) mod
\* cycleLength in 0..cycleLength-1, daysSinceAnchor being the calendar days
\* from the anchor to the date; with the seed anchor 2026-01-01 and offset 0,
\* 2026-01-06 is off and 2026-01-01 is not.
C19_DaysSinceAnchor(call, day) ==
  DayNumber(<<call.year, call.month, day>>) - DayNumber(call.schedule.anchorDate)
C19_CyclicIndex ==
  (monthCall.done /\ monthCall.schedule.patternType = "rotating") =>
    /\ \A day \in DOMAIN monthCall.result :
         LET i == (C19_DaysSinceAnchor(monthCall, day) + monthCall.schedule.squadOffset)
                    % monthCall.schedule.cycleLength
         IN monthCall.result[day] <=> monthCall.schedule.patternArray[i + 1] = "O"
    /\ ( /\ monthCall.year = 2026 /\ monthCall.month = 0
         /\ monthCall.schedule.anchorDate = SeedAnchor
         /\ monthCall.schedule.squadOffset = 0 ) =>
           monthCall.result[6] /\ ~monthCall.result[1]

\* C20: daysSinceAnchor is the number of calendar days from the anchor date
\* to the target date, whatever daylight-saving transitions lie between
\* them, and the month schedule is the one a host in UTC computes.
C20_CalendarDayDifference ==
  monthCall.done =>
    /\ \A day \in DOMAIN monthCall.diffDays :
         monthCall.diffDays[day] = C19_DaysSinceAnchor(monthCall, day)
    /\ monthCall.result =
         computeMonthSchedule("UTC", monthCall.year, monthCall.month,
                              monthCall.schedule)

\* C21: for a steady schedule the result of a date is the pattern's entry at
\* the date's day of week (0 is Sunday), whatever anchorDate, squadOffset and
\* cycleLength the schedule holds; with the pattern O,W,W,W,W,W,O Saturdays
\* and Sundays are off and Mondays to Fridays are not.
C21_MonthOffsets == <<0, 3, 2, 5, 0, 3, 5, 1, 4, 6, 2, 4>>
C21_DayOfWeek(year, month, day) ==
  LET y == IF month < 2 THEN year - 1 ELSE year
  IN (y + (y \div 4) - (y \div 100) + (y \div 400) + C21_MonthOffsets[month + 1] + day) % 7
C21_SteadyByDayOfWeek ==
  (monthCall.done /\ monthCall.schedule.patternType = "steady") =>
    /\ \A day \in DOMAIN monthCall.result :
         LET w == C21_DayOfWeek(monthCall.year, monthCall.month, day)
         IN /\ monthCall.result[day] <=> monthCall.schedule.patternArray[w + 1] = "O"
            /\ monthCall.schedule.patternArray = SteadyPattern =>
                 (monthCall.result[day] <=> w \in {0, 6})
    /\ \A other \in Schedules :
         ( /\ other.patternType = "steady"
           /\ other.patternArray = monthCall.schedule.patternArray ) =>
             computeMonthSchedule(monthCall.zone, monthCall.year, monthCall.month,
                                  other) = monthCall.result

\* A steady call whose schedule differs from the seed's in anchor, offset and
\* cycleLength, on a host with daylight saving, in a month with a transition.
C21_Witness ==
  /\ monthCall.done
  /\ monthCall.schedule.patternType = "steady"
  /\ monthCall.schedule.patternArray = SteadyPattern
  /\ monthCall.schedule.anchorDate # SeedAnchor
  /\ monthCall.schedule.squadOffset = 3
  /\ monthCall.schedule.cycleLength = 15
  /\ monthCall.zone = "America/New_York"
  /\ monthCall.year = 2026 /\ monthCall.month = 2
  /\ monthCall.result[1] /\ ~monthCall.result[2]

\* C22: the map computeMonthSchedule returns has exactly the keys 1..N, N
\* being the length of the month (28, 29 in a leap year, 30 or 31), and the
\* value at each key is the result of that date alone.
C22_DaysFromCivil(year, month, day) ==
  LET y == IF month <= 1 THEN year - 1 ELSE year
      era == y \div 400
      yoe == y - era * 400
      mp == IF month > 1 THEN month - 2 ELSE month + 10
      doy == ((153 * mp + 2) \div 5) + day - 1
      doe == yoe * 365 + (yoe \div 4) - (yoe \div 100) + doy
  IN era * 146097 + doe
C22_MonthLength(year, month) ==
  (IF month = 11 THEN C22_DaysFromCivil(year + 1, 0, 1)
   ELSE C22_DaysFromCivil(year, month + 1, 1))
  - C22_DaysFromCivil(year, month, 1)
C22_OneEntryPerDay ==
  monthCall.done =>
    /\ DOMAIN monthCall.result = 1..C22_MonthLength(monthCall.year, monthCall.month)
    /\ C22_MonthLength(monthCall.year, monthCall.month) \in 28..31
    /\ \A day \in DOMAIN monthCall.result :
         monthCall.result[day] =
           DayIsOff(monthCall.zone, monthCall.schedule,
                    <<monthCall.year, monthCall.month, day>>)

\* The February of a leap year: 29 keys.
C22_Witness ==
  /\ monthCall.done
  /\ monthCall.year = 2024
  /\ monthCall.month = 1
  /\ DOMAIN monthCall.result = 1..29

\* C23: a schedule whose patternArray has not the declared length
\* (cycleLength for a rotating schedule, 7 for a steady one) is rejected when
\* it is stored or loaded, and computeMonthSchedule never yields values for
\* it.
C23_WellConfigured(schedule) ==
  Len(schedule.patternArray) =
    (IF schedule.patternType = "rotating" THEN schedule.cycleLength ELSE 7)
C23_MisconfiguredRejected ==
  monthCall.done => C23_WellConfigured(monthCall.schedule)

\* C24: during the bundled build's initial load the version of a dataset is
\* recorded once its seed step has completed, laws before precincts before
\* sectors; when a step throws the load rejects, no later version is
\* recorded, and isInitialLoadComplete is false afterwards so that the next
\* start repeats the load.
C24_RecordedInOrder ==
  /\ "laws" \in wrote => lawCategories = NumLawCategories /\ lawEntries >= NumLawEntries
  /\ "precincts" \in wrote =>
       "laws" \in wrote /\ \A n \in PrecinctNums : precincts[n] # "absent"
  /\ "sectors" \in wrote => "precincts" \in wrote
  /\ loadResult = "rejected" => "sectors" \notin wrote
C24_VersionsFollowSeeds ==
  (build = "bundled" /\ ctx["load"] = "initial") =>
    /\ C24_RecordedInOrder
    /\ loadResult = "rejected" => ~IsInitialLoadComplete(data_versions)

\* C25: each of the two sector rings seedSectorData derives from a closed
\* parent ring of n >= 3 distinct vertices is closed, has at least 4
\* coordinate pairs and at least 3 distinct vertices.
C25_ValidRing(ring) ==
  /\ ring[1] = ring[Len(ring)]
  /\ Len(ring) >= 4
  /\ Cardinality({ring[i] : i \in DOMAIN ring}) >= 3
C25_SectorRingsValid ==
  sectorCall.done =>
    \A k \in 1..2 : C25_ValidRing(sectorCall.sectors[k].boundaryJson.coordinates[1])

\* C26: as long as resetDatabase has not been called, the calls of
\* getDatabase, concurrent or repeated, have started initDatabase at most
\* once and every caller holds the same promise, whether it has settled or
\* not.
C26_ResetCalled ==
  \/ dbTask["load"].op > 3
  \/ dbTask["load"].op = 3 /\ dbTask["load"].step # "call"
C26_SingleInitialization ==
  ~C26_ResetCalled =>
    /\ Len(dbInits) <= 1
    /\ \A t \in DbTasks : dbTask[t].held # 0 => dbTask[t].held = dbPromise
C26_Witness ==
  /\ ~C26_ResetCalled
  /\ dbInits = <<"pending">>
  /\ \A t \in DbTasks : dbTask[t].held = 1 /\ dbTask[t].step = "await"

\* C29: no repository operation runs a statement on a handle resetDatabase
\* has closed, however AppProvider's reads interleave with the load that
\* resets the database.
C29_NoStatementOnClosedHandle == closedUse = {}

\* C27: once performInitialDataLoad has completed without throwing,
\* isInitialLoadComplete answers true (so that the next call, with the
\* versions at their targets, takes the branch that deletes and seeds
\* nothing).
C27_CompleteAfterLoad ==
  loadResult = "resolved" => IsInitialLoadComplete(data_versions)

\* C28: when the load succeeds after failed attempts retried from the
\* onboarding screen, law_entries holds each seeded entry once, as after a
\* single successful load.
C28_LawEntriesOnce ==
  (loadResult = "resolved" /\ ctx["load"] = "initial" /\ restarts = 0 /\ retries > 0)
    => lawEntries = NumLawEntries

\* C30: recent_searches never holds more than 10 rows; after an
\* addRecentSearch it holds the 10 rows of greatest timestamp among the rows
\* stored before and the new one (all of them when they are 10 or fewer);
\* getRecentSearches returns the rows of the table in descending order of
\* timestamp.
C30_Count(rows, t) == Cardinality({i \in DOMAIN rows : rows[i] = t})
C30_Greatest(kept, all) ==
  /\ Len(kept) = (IF Len(all) > 10 THEN 10 ELSE Len(all))
  /\ \A t \in Timestamps : C30_Count(kept, t) <= C30_Count(all, t)
  /\ \A t \in Timestamps, u \in Timestamps :
       (t < u /\ C30_Count(kept, u) < C30_Count(all, u)) => C30_Count(kept, t) = 0
C30_TenNewestKept ==
  /\ Len(recent_searches) <= 10
  /\ searchCall.op = "add" =>
       C30_Greatest(recent_searches, Append(searchCall.before, searchCall.timestamp))
  /\ searchCall.op = "clear" => recent_searches = <<>>
  /\ searchCall.op = "get" =>
       /\ \A t \in Timestamps :
            C30_Count(searchCall.result, t) = C30_Count(recent_searches, t)
       /\ \A i \in DOMAIN searchCall.result, j \in DOMAIN searchCall.result :
            i < j => searchCall.result[i] >= searchCall.result[j]
C30_Witness ==
  /\ searchCall.op = "add"
  /\ Len(searchCall.before) = 10
  /\ searchCall.timestamp = 1
  /\ C30_Count(searchCall.before, 1) > 0
  /\ C30_Count(searchCall.before, 2) > 0
  /\ Len(recent_searches) = 10

====
